---- MODULE Spec2Model ----
(***************************************************************************)
(* Timer core of the mobile task tracker: the time_entries table, the      *)
(* timer service (src/api/timerService.js) and the handlers of the timer   *)
(* overlay (src/components/TimerOverlay.jsx) that drive it.                *)
(*                                                                         *)
(* Time is counted in half seconds (HalfPerSec units make one second), so  *)
(* that Math.round((end - start) / 1000) is a real rounding in the model.  *)
(* An optional column or value is None (SQL NULL / JS null) or Some(v).    *)
(***************************************************************************)
EXTENDS Integers, Sequences, FiniteSets, TLC

\* ------------------------------------------------------------------ bounds
MaxTime == 2
MaxEntries == 2
MaxFaults == 1
AggMaxRows == 3
AggMaxStart == 1
AggMaxDuration == 2

Clients == {1, 2}
Observer == 1
Tasks == {1, 2}
TargetInputs == {0, 1}
Estimates == {<<>>, <<-1>>, <<1>>}
Slots == {<<>>, <<1>>}
Overrides == {0, MaxTime}
UpdateTimes == {0, MaxTime}
DisplayBases == {0, 1, 2, 1800}
DisplayTargets == {<<>>, <<0>>, <<1>>, <<3>>, <<3600>>}
HalfPerSec == 2
ExampleStart == MaxTime - 300 * HalfPerSec
DisplayStarts == {0, 1, MaxTime, ExampleStart}

\* ------------------------------------------------------------ option values
None == <<>>
Some(v) == <<v>>
IsSome(o) == o # <<>>
Val(o) == o[1]

Max(a, b) == IF a > b THEN a ELSE b

\* ---------------------------------------------------------------- variables
VARIABLES
  now,            \* wall clock, in half seconds
  entries,        \* table time_entries: a set of rows
  nextId,         \* next id the table assigns on insert
  tasks,          \* table tasks: task id -> [status, estimated_duration_seconds]
  faultsLeft,     \* number of store calls that may still return an error
  mounted,        \* the client's timer overlay is open
  taskOf,         \* prop task.id of the client's overlay (taskId of a direct call)
  pc,             \* position of each client's running handler
  loading,        \* useState loading
  runningEntry,   \* useState runningEntry
  isRunning,      \* useState isRunning
  baseRef,        \* useRef baseRef.current
  targetSeconds,  \* useState targetSeconds
  localTarget,    \* localStorage slot dltr_timer_target_<task.id> of the client
  taskEstimate,   \* prop task.estimated_duration_seconds
  persistTargetToTask, \* useState persistTargetToTask
  ticker,         \* tickerRef.current: what the scheduled interval captured
  displaySeconds, \* useState displaySeconds
  reloadPending,  \* a reloadAggregate nobody awaits is in flight
  ret,            \* what the timer service last returned to the direct caller
                  \* whose results are kept (Observer)
  call,           \* the handler in progress and its locals
  date,           \* DiaryPage: useState date
  content,        \* DiaryPage: useState content (the textarea)
  diaryRow,       \* DiaryPage: useState diaryRow
  diaryLoading,   \* DiaryPage: useState loading
  autosaveTimer,  \* DiaryPage: the timeout autosaveTimer.current holds, with the
                  \* draftKey and content its callback captured
  drafts,         \* localStorage slots dltr_diary_draft_<user.id>_<date>
  diaries,        \* table diaries of the user: date -> content
  diaryLoads,     \* the dates of the loadDiaryFor calls awaiting getDiary
  diaryCall       \* the handleSave or handleDelete in progress and its locals

storeVars == <<entries, nextId, tasks>>
targetVars == <<targetSeconds, localTarget>>
runVars == <<runningEntry, isRunning, ticker, displaySeconds>>
propVars == <<mounted, taskOf, taskEstimate>>
vars == <<now, entries, nextId, tasks, faultsLeft, mounted, taskOf, pc, loading,
          runningEntry, isRunning, baseRef, targetSeconds, localTarget,
          taskEstimate, persistTargetToTask, ticker, displaySeconds,
          reloadPending, ret, call, date, content, diaryRow, diaryLoading,
          autosaveTimer, drafts, diaries, diaryLoads, diaryCall>>
diaryVars == <<date, content, diaryRow, diaryLoading, autosaveTimer, drafts,
               diaries, diaryLoads, diaryCall>>
timerVars == <<now, entries, nextId, tasks, mounted, taskOf, pc, loading,
               runningEntry, isRunning, baseRef, targetSeconds, localTarget,
               taskEstimate, persistTargetToTask, ticker, displaySeconds,
               reloadPending, ret, call>>

\* ------------------------------------------------------------------- store
Row(i, t, s, e, d) ==
  [id |-> i, task_id |-> t, start_at |-> s, end_at |-> e, duration_seconds |-> d]

\* the rows S listed latest first
OrderedByStartDescending(S) ==
  LET n == Cardinality(S) IN
  { s \in [1..n -> S] :
      \A i, j \in 1..n : i < j => (s[i] # s[j] /\ s[i].start_at >= s[j].start_at) }

\* .order('start_at', { ascending: true }): every listing of the rows S in
\* non-decreasing start_at; rows with equal start_at come in any order.
OrderedByStart(S) ==
  LET n == Cardinality(S) IN
  { s \in [1..n -> S] :
      \A i, j \in 1..n : i < j => (s[i] # s[j] /\ s[i].start_at <= s[j].start_at) }

\* .from('time_entries').select('*').eq('task_id', t)
RowsOfTask(E, t) == { r \in E : r.task_id = t }

\* ... .is('end_at', null)
OpenRowsOfTask(E, t) == { r \in E : r.task_id = t /\ r.end_at = None }

\* A store call either succeeds or returns an error; errors are counted.
Outcomes == IF faultsLeft > 0 THEN {TRUE, FALSE} ELSE {TRUE}
Count(ok) == faultsLeft' = IF ok THEN faultsLeft ELSE faultsLeft - 1

\* ------------------------------------------------------------ getAggregate
\* entries.filter((r) => r.end_at === null || r.end_at === undefined)
RunningRows(rows) == SelectSeq(rows, LAMBDA r : r.end_at = None)

RECURSIVE ReduceLatest(_, _, _)
ReduceLatest(rows, i, a) ==
  IF i > Len(rows) THEN a
  ELSE ReduceLatest(rows, i + 1, IF a.start_at > rows[i].start_at THEN a ELSE rows[i])

PickEarliest(running) ==
  IF Len(running) = 0 THEN None ELSE Some(running[1])

\* runningRows.length === 1 ? runningRows[0] : reduce(a.start_at > b.start_at ? a : b)
PickRunning(running) ==
  IF Len(running) = 0 THEN None
  ELSE IF Len(running) = 1 THEN Some(running[1])
  ELSE Some(ReduceLatest(running, 2, running[1]))

Warning(kind, n) == <<kind, n>>

AggWarningsFromOne(running) ==
  IF Len(running) >= 1 THEN << Warning("multiple_running_entries", Len(running)) >> ELSE << >>

\* warnings.push(`multiple_running_entries:${runningRows.length}`) when length > 1
AggWarnings(running) ==
  IF Len(running) > 1 THEN << Warning("multiple_running_entries", Len(running)) >> ELSE << >>

RECURSIVE SumAllDurations(_, _)
SumAllDurations(rows, i) ==
  IF i > Len(rows) THEN 0
  ELSE (IF IsSome(rows[i].duration_seconds) THEN Val(rows[i].duration_seconds) ELSE 0)
       + SumAllDurations(rows, i + 1)

\* entries.forEach: if (r.end_at && typeof r.duration_seconds === 'number')
\*                    baseSeconds += r.duration_seconds || 0
RECURSIVE SumCompleted(_, _)
SumCompleted(rows, i) ==
  IF i > Len(rows) THEN 0
  ELSE (IF IsSome(rows[i].end_at) /\ IsSome(rows[i].duration_seconds)
          THEN Val(rows[i].duration_seconds) ELSE 0)
       + SumCompleted(rows, i + 1)

BaseSecondsAll(rows) == SumAllDurations(rows, 1)

BaseSeconds(rows) == SumCompleted(rows, 1)

\* a getAggregate that goes on with the rows although the fetch reported an error
GetAggregateIgnoringError(rows, ok) ==
  [fn |-> "getAggregate", baseSeconds |-> BaseSeconds(rows),
   runningEntry |-> PickRunning(RunningRows(rows)), entries |-> rows,
   warnings |-> AggWarnings(RunningRows(rows)), error |-> ~ok]

\* The value getAggregate returns for the fetched rows, or for a failed fetch.
GetAggregate(rows, ok) ==
  IF ~ok
    THEN [fn |-> "getAggregate", baseSeconds |-> 0, runningEntry |-> None,
          entries |-> << >>,
          warnings |-> << Warning("entries_fetch_error", 0) >>, error |-> TRUE]
    ELSE [fn |-> "getAggregate", baseSeconds |-> BaseSeconds(rows),
          runningEntry |-> PickRunning(RunningRows(rows)),
          entries |-> rows,
          warnings |-> AggWarnings(RunningRows(rows)),
          error |-> FALSE]

\* ------------------------------------------------------- client-side values
\* handler: the handler (or directly called service function) in progress;
\* target: the targetSeconds the handler's closure saw; effectiveTarget and
\* base: handleStart's effectiveTarget and authoritativeBase; the rest: the
\* arguments and locals of stopEntry and createEntry
NoUpdates == [start_at |-> None, end_at |-> None, duration_seconds |-> None]

NoCall == [handler |-> "none", target |-> None, effectiveTarget |-> 0, base |-> 0,
           entryId |-> 0, end_at |-> 0, override |-> None, start_at |-> 0,
           duration_seconds |-> 0, updates |-> NoUpdates]

NoRet == [fn |-> "none"]

Ret(f, d, cr, err, w) ==
  [fn |-> f, entryId |-> 0, override |-> None, data |-> d, created |-> cr,
   error |-> err, warnings |-> w]

StopRet(c, d, err) ==
  [fn |-> "stopEntry", entryId |-> call[c].entryId, override |-> call[c].override,
   data |-> d, created |-> FALSE, error |-> err, warnings |-> << >>]

\* React drops a state update of an unmounted component: the state variables
\* of a closed overlay stay at their defaults
SetState(c, v, default) == IF mounted[c] THEN v ELSE default

SetLoading(c, v) == loading' = [loading EXCEPT ![c] = SetState(c, v, FALSE)]

\* the overlay's buttons that are disabled while loading
Idle(c) == mounted[c] /\ pc[c] = "idle" /\ ~loading[c]

\* getEffectiveTarget: the state, else the localStorage slot, else the task's estimate
GetEffectiveTarget(c) ==
  IF IsSome(targetSeconds[c]) THEN targetSeconds[c]
  ELSE IF IsSome(localTarget[c][taskOf[c]]) /\ Val(localTarget[c][taskOf[c]]) > 0
    THEN localTarget[c][taskOf[c]]
  ELSE IF IsSome(taskEstimate[c]) /\ Val(taskEstimate[c]) # 0 THEN taskEstimate[c]
  ELSE None

\* a ticker that counts the run alone
TickerWithoutBase(e, b, t) == Some([entry |-> e, base |-> 0, target |-> t])

\* startTicker(entry, base, target): the one interval of the overlay and its closure
Ticker(e, b, t) == Some([entry |-> e, base |-> b, target |-> t])

\* Math.round(halves / HalfPerSec); Math.round rounds a half up
RoundSeconds(d) == (2 * d + HalfPerSec) \div (2 * HalfPerSec)

StopDurationUnclamped(end, start) == RoundSeconds(end - start)

\* Math.max(0, Math.round((new Date(end_at) - new Date(existing.start_at)) / 1000))
StopDuration(end, start) == Max(0, RoundSeconds(end - start))

\* a display computation that forgets the base
ComputeRemainingOfRunOnly(entry, base, target, t) ==
  LET runningSegment == IF entry # None /\ Val(entry).end_at = None
                          THEN RoundSeconds(t - Val(entry).start_at) ELSE 0
      tgt == IF target # None THEN Val(target) ELSE 0
  IN [remaining |-> Max(0, tgt - runningSegment), elapsed |-> runningSegment,
      runningSegment |-> runningSegment]

\* computeRemaining(entry, base, target) when Date.now() is t
ComputeRemaining(entry, base, target, t) ==
  LET runningSegment == IF entry # None /\ Val(entry).end_at = None
                          THEN RoundSeconds(t - Val(entry).start_at) ELSE 0
      elapsed == base + runningSegment
      tgt == IF target # None THEN Val(target) ELSE 0
  IN [remaining |-> Max(0, tgt - elapsed), elapsed |-> elapsed,
      runningSegment |-> runningSegment]

\* what startTicker and its interval callback pass to setDisplaySeconds:
\* the remaining time when the captured target is set, else the elapsed time
TickerValue(e, b, tgt, t) ==
  IF tgt # None THEN ComputeRemaining(e, b, tgt, t).remaining
  ELSE ComputeRemaining(e, b, None, t).elapsed

\* remainingNow, computed at render: from the state targetSeconds and
\* runningEntry and from baseRef.current
RemainingNow(c) ==
  ComputeRemaining(runningEntry[c], baseRef[c], targetSeconds[c], now).remaining

\* the big number the overlay renders: remainingNow under "Remaining" when
\* targetSeconds is set, displaySeconds under "Elapsed" when it is not
Displayed(c) ==
  IF targetSeconds[c] # None THEN Max(0, RemainingNow(c)) ELSE displaySeconds[c]

\* the table tasks no longer has the row
DeletedTask == [status |-> "deleted", estimated_duration_seconds |-> None]

\* from('tasks').update(...).eq('id', task.id): the row of task t becomes row,
\* if the table has one
UpdateTask(T, t, row) == IF T[t] = DeletedTask THEN T ELSE [T EXCEPT ![t] = row]

\* ----------------------------------------------------------- reloadAggregate
\* a reloadAggregate that takes the running entry of the aggregate and keeps the
\* base it had
ApplyAggregateKeepingBase(c, a, tgt, closes) ==
  /\ baseRef' = baseRef
  /\ runningEntry' = [runningEntry EXCEPT ![c] =
       IF closes THEN None ELSE SetState(c, a.runningEntry, None)]
  /\ isRunning' = [isRunning EXCEPT ![c] =
       IF closes THEN FALSE ELSE SetState(c, IsSome(a.runningEntry), FALSE)]
  /\ ticker' = [ticker EXCEPT ![c] =
       IF closes THEN None ELSE Ticker(a.runningEntry, baseRef[c], tgt)]
  /\ displaySeconds' = [displaySeconds EXCEPT ![c] =
       IF closes THEN 0
       ELSE SetState(c, TickerValue(a.runningEntry, baseRef[c], tgt, now), 0)]
  /\ targetSeconds' = [targetSeconds EXCEPT ![c] = IF closes THEN None ELSE targetSeconds[c]]
  /\ persistTargetToTask' = [persistTargetToTask EXCEPT ![c] =
       IF closes THEN FALSE ELSE persistTargetToTask[c]]
  /\ SetLoading(c, FALSE)

\* What reloadAggregate does with the aggregate a; tgt is the targetSeconds its
\* closure saw when it was called.  closes: the caller is handleFinish, whose
\* onClose unmounts the overlay, and the unmount clears the interval.
ApplyAggregate(c, a, tgt, closes) ==
  /\ baseRef' = [baseRef EXCEPT ![c] = a.baseSeconds]
  /\ runningEntry' = [runningEntry EXCEPT ![c] =
       IF closes THEN None ELSE SetState(c, a.runningEntry, None)]
  /\ isRunning' = [isRunning EXCEPT ![c] =
       IF closes THEN FALSE ELSE SetState(c, IsSome(a.runningEntry), FALSE)]
  /\ ticker' = [ticker EXCEPT ![c] =
       IF closes THEN None ELSE Ticker(a.runningEntry, a.baseSeconds, tgt)]
  /\ displaySeconds' = [displaySeconds EXCEPT ![c] =
       IF closes THEN 0
       ELSE SetState(c, TickerValue(a.runningEntry, a.baseSeconds, tgt, now), 0)]
  /\ targetSeconds' = [targetSeconds EXCEPT ![c] = IF closes THEN None ELSE targetSeconds[c]]
  /\ persistTargetToTask' = [persistTargetToTask EXCEPT ![c] =
       IF closes THEN FALSE ELSE persistTargetToTask[c]]
  /\ SetLoading(c, FALSE)

\* the Refresh button: reloadAggregate, awaited by nobody
Refresh(c) ==
  /\ mounted[c]
  /\ ~loading[c]
  /\ reloadPending[c] = None
  /\ SetLoading(c, TRUE)
  /\ reloadPending' = [reloadPending EXCEPT ![c] = Some(targetSeconds[c])]
  /\ UNCHANGED <<diaryVars, now, storeVars, faultsLeft, propVars, pc, runVars, baseRef,
                 targetVars, persistTargetToTask, ret, call>>

\* getAggregate answers a reloadAggregate that nobody awaits
ReloadReturns(c) ==
  /\ reloadPending[c] # None
  /\ \E ok \in Outcomes :
     \E rows \in OrderedByStart(RowsOfTask(entries, taskOf[c])) :
       /\ ApplyAggregate(c, GetAggregate(rows, ok), Val(reloadPending[c]), FALSE)
       /\ Count(ok)
  /\ reloadPending' = [reloadPending EXCEPT ![c] = None]
  /\ UNCHANGED <<diaryVars, now, storeVars, propVars, pc, localTarget, ret, call>>

\* getAggregate answers the reloadAggregate a handler awaits; the handler ends
AwaitedReloadReturns(c) ==
  /\ pc[c] = "ra_fetch"
  /\ \E ok \in Outcomes :
     \E rows \in OrderedByStart(RowsOfTask(entries, taskOf[c])) :
       /\ ApplyAggregate(c, GetAggregate(rows, ok), call[c].target,
                         call[c].handler = "handleFinish")
       /\ Count(ok)
  /\ pc' = [pc EXCEPT ![c] = "idle"]
  /\ call' = [call EXCEPT ![c] = NoCall]
  /\ mounted' = IF call[c].handler = "handleFinish" THEN [mounted EXCEPT ![c] = FALSE]
                ELSE mounted
  /\ UNCHANGED <<diaryVars, now, storeVars, taskOf, taskEstimate, localTarget, reloadPending, ret>>

\* getAggregate(taskId) is called directly
GetAggregateCall(c, t) ==
  /\ ~mounted[c]
  /\ pc[c] = "idle"
  /\ pc' = [pc EXCEPT ![c] = "ga_fetch"]
  /\ taskOf' = [taskOf EXCEPT ![c] = t]
  /\ call' = [call EXCEPT ![c] = [NoCall EXCEPT !.handler = "getAggregate"]]
  /\ UNCHANGED <<diaryVars, now, storeVars, faultsLeft, mounted, taskEstimate, loading,
                 runVars, baseRef, targetVars, persistTargetToTask, reloadPending,
                 ret>>

\* a getAggregate that tidies up: of several open rows only the one it returns
\* is kept
GetAggregateTidies(c) ==
  /\ pc[c] = "ga_fetch"
  /\ \E ok \in Outcomes :
     \E rows \in OrderedByStart(RowsOfTask(entries, taskOf[c])) :
       /\ ret' = IF c = Observer THEN GetAggregate(rows, ok) ELSE ret
       /\ entries' = { r \in entries :
                         \/ r.task_id # taskOf[c]
                         \/ r.end_at # None
                         \/ Some(r) = GetAggregate(rows, TRUE).runningEntry }
       /\ Count(ok)
  /\ pc' = [pc EXCEPT ![c] = "idle"]
  /\ call' = [call EXCEPT ![c] = NoCall]
  /\ UNCHANGED <<diaryVars, now, nextId, tasks, propVars, loading, runVars, baseRef, targetVars,
                 persistTargetToTask, reloadPending>>

\* getAggregate answers its direct caller
GetAggregateReturns(c) ==
  /\ pc[c] = "ga_fetch"
  /\ \E ok \in Outcomes :
     \E rows \in OrderedByStart(RowsOfTask(entries, taskOf[c])) :
       /\ ret' = IF c = Observer THEN GetAggregate(rows, ok) ELSE ret
       /\ Count(ok)
  /\ pc' = [pc EXCEPT ![c] = "idle"]
  /\ call' = [call EXCEPT ![c] = NoCall]
  /\ UNCHANGED <<diaryVars, now, storeVars, propVars, loading, runVars, baseRef, targetVars,
                 persistTargetToTask, reloadPending>>

\* ------------------------------------------------------------- listEntries
\* a listing that leaves out the entries still open
ListEntriesClosedOnly(E, t) ==
  OrderedByStart({ r \in RowsOfTask(E, t) : r.end_at # None })

\* .select('*').eq('task_id', taskId).order('start_at', { ascending: true })
ListEntries(E, t) == OrderedByStart(RowsOfTask(E, t))

\* return { data, error }
ListRet(t, rows, ok) ==
  [fn |-> "listEntries", task |-> t, data |-> IF ok THEN Some(rows) ELSE None,
   error |-> IF ok THEN "none" ELSE "read"]

\* listEntries(taskId) is called directly
ListEntriesCall(c, t) ==
  /\ ~mounted[c]
  /\ pc[c] = "idle"
  /\ pc' = [pc EXCEPT ![c] = "le_fetch"]
  /\ taskOf' = [taskOf EXCEPT ![c] = t]
  /\ call' = [call EXCEPT ![c] = [NoCall EXCEPT !.handler = "listEntries"]]
  /\ UNCHANGED <<diaryVars, now, storeVars, faultsLeft, mounted, taskEstimate, loading,
                 runVars, baseRef, targetVars, persistTargetToTask, reloadPending,
                 ret>>

\* the select answers and listEntries returns
ListEntriesReturns(c) ==
  /\ pc[c] = "le_fetch"
  /\ \E ok \in Outcomes :
     \E rows \in ListEntries(entries, taskOf[c]) :
       /\ ret' = IF c = Observer THEN ListRet(taskOf[c], rows, ok) ELSE ret
       /\ Count(ok)
  /\ pc' = [pc EXCEPT ![c] = "idle"]
  /\ call' = [call EXCEPT ![c] = NoCall]
  /\ UNCHANGED <<diaryVars, now, storeVars, propVars, loading, runVars, baseRef, targetVars,
                 persistTargetToTask, reloadPending>>

\* ------------------------------------------------------------------ targets
\* setTargetFromInputs with the inputs amounting to s seconds
\* a Set Target that saves under one key shared by all tasks
SetTargetUnderOneKey(c, s) ==
  /\ mounted[c]
  /\ IF s = 0
       THEN UNCHANGED <<targetVars, displaySeconds, tasks>>
       ELSE /\ targetSeconds' = [targetSeconds EXCEPT ![c] = Some(s)]
            /\ localTarget' = [localTarget EXCEPT ![c] = [t \in Tasks |-> Some(s)]]
            /\ displaySeconds' = [displaySeconds EXCEPT ![c] =
                 ComputeRemaining(runningEntry[c], baseRef[c], Some(s), now).remaining]
            /\ UNCHANGED tasks
  /\ UNCHANGED <<diaryVars, now, entries, nextId, faultsLeft, propVars, pc, loading,
                 runningEntry, isRunning, ticker, baseRef, persistTargetToTask,
                 reloadPending, ret, call>>

\* (the update of the task's estimate is not awaited and its promise is used
\* through .catch only: whether it reaches the table is left open)
SetTargetFromInputs(c, s) ==
  /\ mounted[c]
  /\ IF s = 0
       THEN UNCHANGED <<targetVars, displaySeconds, tasks>>
       ELSE /\ targetSeconds' = [targetSeconds EXCEPT ![c] = Some(s)]
            /\ localTarget' = [localTarget EXCEPT ![c][taskOf[c]] = Some(s)]
            /\ displaySeconds' = [displaySeconds EXCEPT ![c] =
                 ComputeRemaining(runningEntry[c], baseRef[c], Some(s), now).remaining]
            /\ IF persistTargetToTask[c]
                 THEN \E lands \in BOOLEAN :
                        tasks' = IF lands
                          THEN UpdateTask(tasks, taskOf[c],
                                 [tasks[taskOf[c]] EXCEPT !.estimated_duration_seconds = Some(s)])
                          ELSE tasks
                 ELSE UNCHANGED tasks
  /\ UNCHANGED <<diaryVars, now, entries, nextId, faultsLeft, propVars, pc, loading,
                 runningEntry, isRunning, ticker, baseRef, persistTargetToTask,
                 reloadPending, ret, call>>

\* clearTarget: forget the target and reload, awaited by nobody
ClearTarget(c) ==
  /\ mounted[c]
  /\ reloadPending[c] = None
  /\ targetSeconds' = [targetSeconds EXCEPT ![c] = None]
  /\ localTarget' = [localTarget EXCEPT ![c][taskOf[c]] = None]
  /\ SetLoading(c, TRUE)
  /\ reloadPending' = [reloadPending EXCEPT ![c] = Some(targetSeconds[c])]
  /\ UNCHANGED <<diaryVars, now, storeVars, faultsLeft, propVars, pc, runVars, baseRef,
                 persistTargetToTask, ret, call>>

\* the "Save as task target" checkbox
TogglePersist(c) ==
  /\ mounted[c]
  /\ persistTargetToTask' = [persistTargetToTask EXCEPT ![c] = ~persistTargetToTask[c]]
  /\ UNCHANGED <<diaryVars, now, storeVars, faultsLeft, propVars, pc, loading, runVars,
                 baseRef, targetVars, reloadPending, ret, call>>

\* ------------------------------------------------------------- handleStart
\* Start / Resume is pressed: validate the target, then ask for the aggregate
HandleStart(c) ==
  /\ Idle(c)
  /\ ~isRunning[c]
  /\ LET eff == GetEffectiveTarget(c) IN
       IF eff = None \/ Val(eff) = 0
         THEN UNCHANGED <<pc, loading, call>>
         ELSE /\ pc' = [pc EXCEPT ![c] = "hs_agg"]
              /\ SetLoading(c, TRUE)
              /\ call' = [call EXCEPT ![c] = [NoCall EXCEPT !.handler = "handleStart",
                                                           !.target = targetSeconds[c],
                                                           !.effectiveTarget = Val(eff)]]
  /\ UNCHANGED <<diaryVars, now, storeVars, faultsLeft, propVars, runVars, baseRef,
                 targetVars, persistTargetToTask, reloadPending, ret>>

AlreadyFulfilledNever(target, base) == FALSE

\* remainingBefore = Math.max(0, effectiveTarget - authoritativeBase) <= 0
AlreadyFulfilled(target, base) == Max(0, target - base) <= 0

\* getAggregate answers handleStart: short-circuit when fulfilled, else createEntry
StartAggregateReturns(c) ==
  /\ pc[c] = "hs_agg"
  /\ \E ok \in Outcomes :
     \E rows \in OrderedByStart(RowsOfTask(entries, taskOf[c])) :
       LET a == GetAggregate(rows, ok) IN
         /\ call' = [call EXCEPT ![c].base = a.baseSeconds]
         /\ Count(ok)
         /\ pc' = [pc EXCEPT ![c] =
              IF AlreadyFulfilled(call[c].effectiveTarget, a.baseSeconds)
                THEN "hs_complete" ELSE "ce_fetch"]
  /\ UNCHANGED <<diaryVars, now, storeVars, propVars, loading, runVars, baseRef, targetVars,
                 persistTargetToTask, reloadPending, ret>>

\* tasks.update({ status: 'completed' }) answers (its error is not looked at),
\* then reloadAggregate is awaited
StartMarksCompleted(c) ==
  /\ pc[c] = "hs_complete"
  /\ \E ok \in Outcomes :
       /\ tasks' = IF ok THEN UpdateTask(tasks, taskOf[c],
                                        [tasks[taskOf[c]] EXCEPT !.status = "completed"])
                  ELSE tasks
       /\ Count(ok)
  /\ pc' = [pc EXCEPT ![c] = "ra_fetch"]
  /\ SetLoading(c, TRUE)
  /\ UNCHANGED <<diaryVars, now, entries, nextId, propVars, runVars, baseRef, targetVars,
                 persistTargetToTask, reloadPending, ret, call>>

\* what the caller of createEntry does with the returned value r: handleStart
\* throws on an error, and otherwise adopts the entry, starts the ticker on the
\* base read before and keeps the target; a direct caller just has r
CreateReturned(c, r) ==
  /\ ret' = IF call[c].handler = "createEntry" /\ c = Observer THEN r ELSE ret
  /\ IF call[c].handler = "handleStart" /\ r.error = "none"
       THEN /\ runningEntry' = [runningEntry EXCEPT ![c] = SetState(c, r.data, None)]
            /\ isRunning' = [isRunning EXCEPT ![c] = SetState(c, IsSome(r.data), FALSE)]
            /\ ticker' = [ticker EXCEPT ![c] =
                 Ticker(r.data, call[c].base, Some(call[c].effectiveTarget))]
            /\ displaySeconds' = [displaySeconds EXCEPT ![c] =
                 SetState(c, TickerValue(r.data, call[c].base,
                                         Some(call[c].effectiveTarget), now), 0)]
            /\ localTarget' = [localTarget EXCEPT ![c][taskOf[c]] =
                 Some(call[c].effectiveTarget)]
            /\ targetSeconds' = [targetSeconds EXCEPT ![c] =
                 SetState(c, Some(call[c].effectiveTarget), None)]
            /\ IF persistTargetToTask[c]
                 THEN /\ pc' = [pc EXCEPT ![c] = "hs_persist"]
                      /\ UNCHANGED <<loading, call>>
                 ELSE /\ pc' = [pc EXCEPT ![c] = "idle"]
                      /\ SetLoading(c, FALSE)
                      /\ call' = [call EXCEPT ![c] = NoCall]
       ELSE /\ pc' = [pc EXCEPT ![c] = "idle"]
            /\ loading' = [loading EXCEPT ![c] =
                 IF call[c].handler = "handleStart" THEN FALSE ELSE loading[c]]
            /\ call' = [call EXCEPT ![c] = NoCall]
            /\ UNCHANGED <<runVars, targetVars>>

ReuseRunningNever(rows) == None

\* createEntry's re-check: the latest running row, if any, is returned instead
\* of inserting
ReuseRunning(rows) == IF Len(rows) > 0 THEN Some(rows[Len(rows)]) ELSE None

CreateWarnings(rows) ==
  IF Len(rows) > 1 THEN << Warning("multiple_running_entries", Len(rows)) >> ELSE << >>

\* createEntry(taskId) is called directly
CreateEntryCall(c, t) ==
  /\ ~mounted[c]
  /\ pc[c] = "idle"
  /\ pc' = [pc EXCEPT ![c] = "ce_fetch"]
  /\ taskOf' = [taskOf EXCEPT ![c] = t]
  /\ call' = [call EXCEPT ![c] = [NoCall EXCEPT !.handler = "createEntry"]]
  /\ UNCHANGED <<diaryVars, now, storeVars, faultsLeft, mounted, taskEstimate, loading,
                 runVars, baseRef, targetVars, persistTargetToTask, reloadPending,
                 ret>>

\* createEntry's select of running rows answers
CreateFetchReturns(c) ==
  /\ pc[c] = "ce_fetch"
  /\ \E ok \in Outcomes :
     \E rows \in OrderedByStart(OpenRowsOfTask(entries, taskOf[c])) :
       /\ Count(ok)
       /\ IF ~ok
            THEN CreateReturned(c, Ret("createEntry", None, FALSE, "fetch",
                                       << Warning("fetch-running-failed", 0) >>))
            ELSE IF ReuseRunning(rows) # None
            THEN CreateReturned(c, Ret("createEntry", ReuseRunning(rows), FALSE, "none",
                                       CreateWarnings(rows)))
            ELSE /\ pc' = [pc EXCEPT ![c] = "ce_insert"]
                 /\ call' = [call EXCEPT ![c].start_at = now]
                 /\ UNCHANGED <<ret, loading, runVars, targetVars>>
  /\ UNCHANGED <<diaryVars, now, storeVars, propVars, baseRef, persistTargetToTask,
                 reloadPending>>

\* createEntry's insert answers
CreateInsertReturns(c) ==
  /\ pc[c] = "ce_insert"
  /\ nextId <= MaxEntries
  /\ \E ok \in Outcomes :
       /\ Count(ok)
       /\ IF ok
            THEN LET row == Row(nextId, taskOf[c], call[c].start_at, None, None) IN
                 /\ entries' = entries \cup {row}
                 /\ nextId' = nextId + 1
                 /\ CreateReturned(c, Ret("createEntry", Some(row), TRUE, "none", << >>))
            ELSE /\ CreateReturned(c, Ret("createEntry", None, FALSE, "write", << >>))
                 /\ UNCHANGED <<entries, nextId>>
  /\ UNCHANGED <<diaryVars, now, tasks, propVars, baseRef, persistTargetToTask,
                 reloadPending>>

\* tasks.update({ estimated_duration_seconds }) answers; handleStart ends
StartPersistReturns(c) ==
  /\ pc[c] = "hs_persist"
  /\ \E ok \in Outcomes :
       /\ Count(ok)
       /\ tasks' = IF ok
            THEN UpdateTask(tasks, taskOf[c],
                   [tasks[taskOf[c]] EXCEPT !.estimated_duration_seconds =
                      Some(call[c].effectiveTarget)])
            ELSE tasks
  /\ pc' = [pc EXCEPT ![c] = "idle"]
  /\ SetLoading(c, FALSE)
  /\ call' = [call EXCEPT ![c] = NoCall]
  /\ UNCHANGED <<diaryVars, now, entries, nextId, propVars, runVars, baseRef, targetVars,
                 persistTargetToTask, reloadPending, ret>>

\* --------------------------------------------------------------- stopEntry
\* stopEntry(entryId, endAtIso) is entered: end_at = endAtIso || now, then the
\* row is asked for
EnterStop(c, h, id, ov) ==
  /\ pc' = [pc EXCEPT ![c] = "se_fetch"]
  /\ call' = [call EXCEPT ![c] =
       [NoCall EXCEPT !.handler = h, !.target = targetSeconds[c], !.entryId = id,
                      !.override = ov, !.end_at = IF ov # None THEN Val(ov) ELSE now]]

\* what the caller of stopEntry does with the returned value r
StopReturned(c, r) ==
  /\ ret' = IF call[c].handler = "stopEntry" /\ c = Observer THEN r ELSE ret
  /\ IF call[c].handler = "handleStop"
       THEN /\ pc' = [pc EXCEPT ![c] = "ra_fetch"]
            /\ SetLoading(c, TRUE)
            /\ UNCHANGED call
       ELSE IF call[c].handler = "handleFinish"
       THEN /\ pc' = [pc EXCEPT ![c] = "hf_status"]
            /\ UNCHANGED <<loading, call>>
       ELSE /\ pc' = [pc EXCEPT ![c] = "idle"]
            /\ call' = [call EXCEPT ![c] = NoCall]
            /\ UNCHANGED loading

RowsAnyId(E, id) == E

\* .eq('id', entryId).maybeSingle()
RowsWithId(E, id) == { r \in E : r.id = id }

\* stopEntry's select of the row answers
StopFetchReturns(c) ==
  /\ pc[c] = "se_fetch"
  /\ \E ok \in Outcomes :
       /\ Count(ok)
       /\ IF ~ok
            THEN StopReturned(c, StopRet(c, None, "fetch"))
            ELSE IF RowsWithId(entries, call[c].entryId) = {}
            THEN StopReturned(c, StopRet(c, None, "not_found"))
            ELSE LET existing == CHOOSE r \in RowsWithId(entries, call[c].entryId) : TRUE IN
                 /\ pc' = [pc EXCEPT ![c] = "se_update"]
                 /\ call' = [call EXCEPT ![c].start_at = existing.start_at,
                                         ![c].duration_seconds =
                                            StopDuration(call[c].end_at, existing.start_at)]
                 /\ UNCHANGED <<ret, loading>>
  /\ UNCHANGED <<diaryVars, now, storeVars, propVars, runVars, baseRef, targetVars,
                 persistTargetToTask, reloadPending>>

\* an update that adds the new duration to the one already stored
StoppedRowAccumulating(row, end, dur) ==
  [row EXCEPT !.end_at = Some(end),
              !.duration_seconds = Some(dur + IF row.duration_seconds # None
                                                THEN Val(row.duration_seconds) ELSE 0)]

\* .update({ end_at, duration_seconds }).eq('id', entryId)
StoppedRow(row, end, dur) ==
  [row EXCEPT !.end_at = Some(end), !.duration_seconds = Some(dur)]

\* stopEntry's update answers
StopUpdateReturns(c) ==
  /\ pc[c] = "se_update"
  /\ \E ok \in Outcomes :
       /\ Count(ok)
       /\ IF ~ok
            THEN /\ StopReturned(c, StopRet(c, None, "write"))
                 /\ UNCHANGED entries
            ELSE IF RowsWithId(entries, call[c].entryId) = {}
            THEN /\ StopReturned(c, StopRet(c, None, "none"))
                 /\ UNCHANGED entries
            ELSE LET row == CHOOSE r \in RowsWithId(entries, call[c].entryId) : TRUE
                     new == StoppedRow(row, call[c].end_at, call[c].duration_seconds) IN
                 /\ entries' = (entries \ {row}) \cup {new}
                 /\ StopReturned(c, StopRet(c, Some(new), "none"))
  /\ UNCHANGED <<diaryVars, now, nextId, tasks, propVars, runVars, baseRef, targetVars,
                 persistTargetToTask, reloadPending>>

\* Stop is pressed
HandleStop(c) ==
  /\ Idle(c)
  /\ isRunning[c]
  /\ runningEntry[c] # None
  /\ EnterStop(c, "handleStop", Val(runningEntry[c]).id, None)
  /\ SetLoading(c, TRUE)
  /\ UNCHANGED <<diaryVars, now, storeVars, faultsLeft, propVars, runVars, baseRef,
                 targetVars, persistTargetToTask, reloadPending, ret>>

\* stopEntry is called directly with an end time of the caller's choice
StopEntryCall(c, id, ov) ==
  /\ ~mounted[c]
  /\ pc[c] = "idle"
  /\ EnterStop(c, "stopEntry", id, ov)
  /\ UNCHANGED <<diaryVars, now, storeVars, faultsLeft, propVars, loading, runVars, baseRef,
                 targetVars, persistTargetToTask, reloadPending, ret>>

\* -------------------------------------------------------------- updateEntry
\* The updates argument: each of start_at, end_at, duration_seconds is a key
\* the caller leaves out (None) or gives a value.
Updates ==
  [start_at : {None} \cup {Some(t) : t \in UpdateTimes},
   end_at : {None} \cup {Some(t) : t \in UpdateTimes},
   duration_seconds : {None, Some(1)}]

\* payload = { ...updates }, with duration_seconds computed when start_at and
\* end_at are both given and duration_seconds is not
UpdatePayload(u) ==
  IF u.start_at # None /\ u.end_at # None /\ u.duration_seconds = None
    THEN [u EXCEPT !.duration_seconds = Some(StopDuration(Val(u.end_at), Val(u.start_at)))]
    ELSE u

\* .update(payload).eq('id', entryId): the columns the payload names are written
UpdatedRow(row, p) ==
  [row EXCEPT !.start_at = IF p.start_at # None THEN Val(p.start_at) ELSE row.start_at,
              !.end_at = IF p.end_at # None THEN p.end_at ELSE row.end_at,
              !.duration_seconds = IF p.duration_seconds # None THEN p.duration_seconds
                                   ELSE row.duration_seconds]

\* updateEntry(entryId, updates) is called directly
UpdateEntryCall(c, id, u) ==
  /\ ~mounted[c]
  /\ pc[c] = "idle"
  /\ pc' = [pc EXCEPT ![c] = "ue_update"]
  /\ call' = [call EXCEPT ![c] = [NoCall EXCEPT !.handler = "updateEntry",
                                                !.entryId = id,
                                                !.updates = UpdatePayload(u)]]
  /\ UNCHANGED <<diaryVars, now, storeVars, faultsLeft, propVars, loading, runVars, baseRef,
                 targetVars, persistTargetToTask, reloadPending, ret>>

\* updateEntry's update answers
UpdateEntryReturns(c) ==
  /\ pc[c] = "ue_update"
  /\ \E ok \in Outcomes :
       /\ Count(ok)
       /\ IF ~ok
            THEN /\ ret' = IF c = Observer
                             THEN [StopRet(c, None, "write") EXCEPT !.fn = "updateEntry"]
                             ELSE ret
                 /\ UNCHANGED entries
            ELSE IF RowsWithId(entries, call[c].entryId) = {}
            THEN /\ ret' = IF c = Observer
                             THEN [StopRet(c, None, "none") EXCEPT !.fn = "updateEntry"]
                             ELSE ret
                 /\ UNCHANGED entries
            ELSE LET row == CHOOSE r \in RowsWithId(entries, call[c].entryId) : TRUE
                     new == UpdatedRow(row, call[c].updates) IN
                 /\ entries' = (entries \ {row}) \cup {new}
                 /\ ret' = IF c = Observer
                             THEN [StopRet(c, Some(new), "none") EXCEPT !.fn = "updateEntry"]
                             ELSE ret
  /\ pc' = [pc EXCEPT ![c] = "idle"]
  /\ call' = [call EXCEPT ![c] = NoCall]
  /\ UNCHANGED <<diaryVars, now, nextId, tasks, propVars, loading, runVars, baseRef, targetVars,
                 persistTargetToTask, reloadPending>>

\* ------------------------------------------------------------ handleFinish
\* Finish is pressed: stop the running entry if the overlay has one, then mark
\* the task completed
HandleFinish(c) ==
  /\ Idle(c)
  /\ IF runningEntry[c] # None
       THEN EnterStop(c, "handleFinish", Val(runningEntry[c]).id, None)
       ELSE /\ pc' = [pc EXCEPT ![c] = "hf_status"]
            /\ call' = [call EXCEPT ![c] = [NoCall EXCEPT !.handler = "handleFinish",
                                                         !.target = targetSeconds[c]]]
  /\ SetLoading(c, TRUE)
  /\ UNCHANGED <<diaryVars, now, storeVars, faultsLeft, propVars, runVars, baseRef,
                 targetVars, persistTargetToTask, reloadPending, ret>>

\* tasks.update({ status: 'completed' }) answers handleFinish
FinishStatusReturns(c) ==
  /\ pc[c] = "hf_status"
  /\ \E ok \in Outcomes :
       /\ Count(ok)
       /\ IF ok
            THEN /\ tasks' = UpdateTask(tasks, taskOf[c],
                             [tasks[taskOf[c]] EXCEPT !.status = "completed"])
                 /\ pc' = [pc EXCEPT ![c] = "ra_fetch"]
                 /\ SetLoading(c, TRUE)
                 /\ UNCHANGED call
            ELSE /\ pc' = [pc EXCEPT ![c] = "idle"]
                 /\ SetLoading(c, FALSE)
                 /\ call' = [call EXCEPT ![c] = NoCall]
                 /\ UNCHANGED tasks
  /\ UNCHANGED <<diaryVars, now, entries, nextId, propVars, runVars, baseRef, targetVars,
                 persistTargetToTask, reloadPending, ret>>


\* ------------------------------------------------------ TaskCard.handleDelete
\* Delete is pressed on the card of task t and confirmed: the task's time
\* entries are asked to be deleted
HandleDelete(c, t) ==
  /\ ~mounted[c]
  /\ pc[c] = "idle"
  /\ tasks[t] # DeletedTask
  /\ pc' = [pc EXCEPT ![c] = "td_entries"]
  /\ taskOf' = [taskOf EXCEPT ![c] = t]
  /\ call' = [call EXCEPT ![c] = [NoCall EXCEPT !.handler = "handleDelete"]]
  /\ UNCHANGED <<diaryVars, now, storeVars, faultsLeft, mounted, taskEstimate, loading,
                 runVars, baseRef, targetVars, persistTargetToTask, reloadPending,
                 ret>>

\* from('time_entries').delete().eq('task_id', task.id) answers; what it
\* returns is not looked at
DeleteEntriesReturns(c) ==
  /\ pc[c] = "td_entries"
  /\ \E ok \in Outcomes :
       /\ Count(ok)
       /\ entries' = IF ok THEN entries \ RowsOfTask(entries, taskOf[c]) ELSE entries
  /\ pc' = [pc EXCEPT ![c] = "td_task"]
  /\ UNCHANGED <<diaryVars, now, nextId, tasks, propVars, loading, runVars, baseRef,
                 targetVars, persistTargetToTask, reloadPending, ret, call>>

\* from('tasks').delete().eq('id', task.id) answers; handleDelete ends (with an
\* alert when the delete failed)
DeleteTaskReturns(c) ==
  /\ pc[c] = "td_task"
  /\ \E ok \in Outcomes :
       /\ Count(ok)
       /\ tasks' = IF ok THEN [tasks EXCEPT ![taskOf[c]] = DeletedTask] ELSE tasks
  /\ pc' = [pc EXCEPT ![c] = "idle"]
  /\ call' = [call EXCEPT ![c] = NoCall]
  /\ UNCHANGED <<diaryVars, now, entries, nextId, propVars, loading, runVars, baseRef,
                 targetVars, persistTargetToTask, reloadPending, ret>>

\* ---------------------------------------------------------------- DiaryPage
\* The page of one user.  A text is told by the date it belongs to: TextOf(d)
\* is what the table holds for date d, what a draft of d left by an earlier
\* visit holds, and what the user types while d is selected; NoText is ''.
Dates == {1, 2}
NoText == 0
TextOf(d) == d
Today == 1

NoDiaryCall == [handler |-> "none", pc |-> "idle", forDate |-> 0, content |-> NoText,
                rowDate |-> 0]

\* the page is not shown: nothing of it is scheduled or in flight
DiaryClosed ==
  /\ date = Today
  /\ content = NoText
  /\ diaryRow = None
  /\ diaryLoading = FALSE
  /\ autosaveTimer = None
  /\ drafts = [d \in Dates |-> None]
  /\ diaries = [d \in Dates |-> None]
  /\ diaryLoads = {}
  /\ diaryCall = NoDiaryCall

\* the autosave effect runs (content or date changed): clearTimeout, then a
\* timeout that will store the content of this render under its draftKey
ScheduleAutosave(d, txt) == Some([key |-> d, content |-> txt])

\* setContent(txt) and the effect it triggers when the content changes
SetContent(txt) ==
  /\ content' = txt
  /\ autosaveTimer' = IF txt # content THEN ScheduleAutosave(date, txt) ELSE autosaveTimer

\* setDate(d) by Prev, Next, the date input, Today or the month list: the date
\* effect calls loadDiaryFor(d), the autosave effect is scheduled again
SetDate(d) ==
  /\ d # date
  /\ date' = d
  /\ diaryLoads' = diaryLoads \cup {d}
  /\ diaryLoading' = TRUE
  /\ autosaveTimer' = ScheduleAutosave(d, content)
  /\ UNCHANGED <<content, diaryRow, drafts, diaries, diaryCall, timerVars, faultsLeft>>

\* getDiary answers a loadDiaryFor(d): the row, then the draft of d if there is
\* one and the row's content otherwise; an error empties the page
LoadDiaryReturns(d) ==
  /\ d \in diaryLoads
  /\ diaryLoads' = diaryLoads \ {d}
  /\ \E ok \in Outcomes :
       /\ Count(ok)
       /\ diaryRow' = IF ok /\ diaries[d] # None
                        THEN Some([diary_date |-> d, content |-> Val(diaries[d])])
                        ELSE None
       /\ SetContent(IF ~ok THEN NoText
                     ELSE IF drafts[d] # None THEN Val(drafts[d])
                     ELSE IF diaries[d] # None THEN Val(diaries[d])
                     ELSE NoText)
  /\ diaryLoading' = FALSE
  /\ UNCHANGED <<date, drafts, diaries, diaryCall, timerVars>>

\* the user edits the textarea: text for the selected date, or nothing left
TypeContent(txt) ==
  /\ txt \in {NoText, TextOf(date)}
  /\ txt # content
  /\ SetContent(txt)
  /\ UNCHANGED <<date, diaryRow, diaryLoading, drafts, diaries, diaryLoads,
                 diaryCall, timerVars, faultsLeft>>

\* 700 ms have passed since the autosave effect ran: localStorage.setItem
AutosaveFires ==
  /\ autosaveTimer # None
  /\ drafts' = [drafts EXCEPT ![Val(autosaveTimer).key] = Some(Val(autosaveTimer).content)]
  /\ autosaveTimer' = None
  /\ UNCHANGED <<date, content, diaryRow, diaryLoading, diaries, diaryLoads,
                 diaryCall, timerVars, faultsLeft>>

\* Save is pressed: upsertDiary(user.id, date, content) looks for the row
HandleSave ==
  /\ diaryCall = NoDiaryCall
  /\ diaryCall' = [NoDiaryCall EXCEPT !.handler = "handleSave", !.pc = "find",
                                      !.forDate = date, !.content = content]
  /\ diaryLoading' = TRUE
  /\ UNCHANGED <<date, content, diaryRow, autosaveTimer, drafts, diaries,
                 diaryLoads, timerVars, faultsLeft>>

\* upsertDiary's select answers: on to the update or insert, or the error ends
\* handleSave
SaveFindReturns ==
  /\ diaryCall.pc = "find"
  /\ \E ok \in Outcomes :
       /\ Count(ok)
       /\ diaryCall' = IF ok THEN [diaryCall EXCEPT !.pc = "write"] ELSE NoDiaryCall
       /\ diaryLoading' = IF ok THEN diaryLoading ELSE FALSE
  /\ UNCHANGED <<date, content, diaryRow, autosaveTimer, drafts, diaries,
                 diaryLoads, timerVars>>

\* upsertDiary's update or insert answers: the row is kept and the draft of
\* the date Save was pressed on is removed
SaveWriteReturns ==
  /\ diaryCall.pc = "write"
  /\ \E ok \in Outcomes :
       /\ Count(ok)
       /\ diaries' = IF ok THEN [diaries EXCEPT ![diaryCall.forDate] = Some(diaryCall.content)]
                     ELSE diaries
       /\ diaryRow' = IF ok THEN Some([diary_date |-> diaryCall.forDate,
                                       content |-> diaryCall.content])
                      ELSE diaryRow
       /\ drafts' = IF ok THEN [drafts EXCEPT ![diaryCall.forDate] = None] ELSE drafts
  /\ diaryCall' = NoDiaryCall
  /\ diaryLoading' = FALSE
  /\ UNCHANGED <<date, content, autosaveTimer, diaryLoads, timerVars>>

\* Delete is pressed and confirmed: deleteDiary(diaryRow.id)
HandleDiaryDelete ==
  /\ diaryCall = NoDiaryCall
  /\ diaryRow # None
  /\ diaryCall' = [NoDiaryCall EXCEPT !.handler = "handleDelete", !.pc = "delete",
                                      !.forDate = date,
                                      !.rowDate = Val(diaryRow).diary_date]
  /\ diaryLoading' = TRUE
  /\ UNCHANGED <<date, content, diaryRow, autosaveTimer, drafts, diaries,
                 diaryLoads, timerVars, faultsLeft>>

\* deleteDiary answers: the page is emptied and the draft removed
DiaryDeleteReturns ==
  /\ diaryCall.pc = "delete"
  /\ \E ok \in Outcomes :
       /\ Count(ok)
       /\ IF ok
            THEN /\ diaries' = [diaries EXCEPT ![diaryCall.rowDate] = None]
                 /\ diaryRow' = None
                 /\ SetContent(NoText)
                 /\ drafts' = [drafts EXCEPT ![diaryCall.forDate] = None]
            ELSE UNCHANGED <<diaries, diaryRow, content, autosaveTimer, drafts>>
  /\ diaryCall' = NoDiaryCall
  /\ diaryLoading' = FALSE
  /\ UNCHANGED <<date, diaryLoads, timerVars>>

\* Discard draft is pressed and confirmed
DiscardDraft ==
  /\ drafts' = [drafts EXCEPT ![date] = None]
  /\ SetContent(IF diaryRow # None THEN Val(diaryRow).content ELSE NoText)
  /\ UNCHANGED <<date, diaryRow, diaryLoading, diaries, diaryLoads, diaryCall,
                 timerVars, faultsLeft>>

\* ----------------------------------------------------------- mount / unmount
\* a load that prefers the task's estimate to the localStorage slot
LoadLocalTargetEstimateFirst(slot, estimate) ==
  IF estimate # None /\ Val(estimate) # 0 THEN estimate
  ELSE IF slot # None /\ Val(slot) > 0 THEN slot
  ELSE None

\* loadLocalTarget: the localStorage slot if it holds a positive number, the
\* task's estimate only when the slot is empty
LoadLocalTarget(slot, estimate) ==
  IF slot # None THEN (IF Val(slot) > 0 THEN slot ELSE None)
  ELSE IF estimate # None /\ Val(estimate) # 0 THEN estimate
  ELSE None

\* Dashboard opens the overlay for task t: fresh component state, then the
\* mount effect (loadLocalTarget, reloadAggregate)
Open(c, t) ==
  /\ ~mounted[c]
  /\ pc[c] = "idle"
  /\ reloadPending[c] = None
  /\ mounted' = [mounted EXCEPT ![c] = TRUE]
  /\ taskOf' = [taskOf EXCEPT ![c] = t]
  /\ taskEstimate' = [taskEstimate EXCEPT ![c] = tasks[t].estimated_duration_seconds]
  /\ runningEntry' = [runningEntry EXCEPT ![c] = None]
  /\ isRunning' = [isRunning EXCEPT ![c] = FALSE]
  /\ baseRef' = [baseRef EXCEPT ![c] = 0]
  /\ persistTargetToTask' = [persistTargetToTask EXCEPT ![c] = FALSE]
  /\ ticker' = [ticker EXCEPT ![c] = None]
  /\ displaySeconds' = [displaySeconds EXCEPT ![c] = 0]
  /\ targetSeconds' = [targetSeconds EXCEPT ![c] =
       LoadLocalTarget(localTarget[c][t], tasks[t].estimated_duration_seconds)]
  /\ loading' = [loading EXCEPT ![c] = TRUE]
  /\ reloadPending' = [reloadPending EXCEPT ![c] = Some(None)]
  /\ UNCHANGED <<diaryVars, now, storeVars, faultsLeft, pc, localTarget, ret, call>>

\* a Close button that also stops the entry the overlay shows as running
CloseStoppingEntry(c) ==
  /\ mounted[c]
  /\ mounted' = [mounted EXCEPT ![c] = FALSE]
  /\ ticker' = [ticker EXCEPT ![c] = None]
  /\ displaySeconds' = [displaySeconds EXCEPT ![c] = 0]
  /\ runningEntry' = [runningEntry EXCEPT ![c] = None]
  /\ isRunning' = [isRunning EXCEPT ![c] = FALSE]
  /\ targetSeconds' = [targetSeconds EXCEPT ![c] = None]
  /\ persistTargetToTask' = [persistTargetToTask EXCEPT ![c] = FALSE]
  /\ loading' = [loading EXCEPT ![c] = FALSE]
  /\ entries' = { IF runningEntry[c] # None /\ r.id = Val(runningEntry[c]).id
                    THEN StoppedRow(r, now, StopDuration(now, r.start_at))
                    ELSE r : r \in entries }
  /\ UNCHANGED <<diaryVars, now, nextId, tasks, faultsLeft, taskOf, taskEstimate, pc, baseRef,
                 localTarget, reloadPending, ret, call>>

\* the Close button: clearInterval, then onClose unmounts the overlay
Close(c) ==
  /\ mounted[c]
  /\ mounted' = [mounted EXCEPT ![c] = FALSE]
  /\ ticker' = [ticker EXCEPT ![c] = None]
  /\ displaySeconds' = [displaySeconds EXCEPT ![c] = 0]
  /\ runningEntry' = [runningEntry EXCEPT ![c] = None]
  /\ isRunning' = [isRunning EXCEPT ![c] = FALSE]
  /\ targetSeconds' = [targetSeconds EXCEPT ![c] = None]
  /\ persistTargetToTask' = [persistTargetToTask EXCEPT ![c] = FALSE]
  /\ loading' = [loading EXCEPT ![c] = FALSE]
  /\ UNCHANGED <<diaryVars, now, storeVars, faultsLeft, taskOf, taskEstimate, pc, baseRef,
                 localTarget, reloadPending, ret, call>>

\* the interval of startTicker fires (every 400 ms while the overlay is open)
TickerFires(c) ==
  /\ mounted[c]
  /\ ticker[c] # None
  /\ displaySeconds' = [displaySeconds EXCEPT ![c] =
       TickerValue(Val(ticker[c]).entry, Val(ticker[c]).base, Val(ticker[c]).target, now)]
  /\ UNCHANGED <<diaryVars, now, storeVars, faultsLeft, propVars, pc, loading, runningEntry,
                 isRunning, ticker, baseRef, targetVars, persistTargetToTask,
                 reloadPending, ret, call>>

\* time passes
Tick ==
  /\ now < MaxTime
  /\ now' = now + 1
  /\ UNCHANGED <<diaryVars, storeVars, faultsLeft, propVars, pc, loading, runVars, baseRef,
                 targetVars, persistTargetToTask, reloadPending, ret, call>>

\* ------------------------------------------------------------ specifications
InitEstimate(t) == IF t = 1 THEN None ELSE Some(1)

InitClients ==
  /\ mounted = [c \in Clients |-> FALSE]
  /\ taskOf = [c \in Clients |-> 1]
  /\ taskEstimate = [c \in Clients |-> None]
  /\ pc = [c \in Clients |-> "idle"]
  /\ loading = [c \in Clients |-> FALSE]
  /\ runningEntry = [c \in Clients |-> None]
  /\ isRunning = [c \in Clients |-> FALSE]
  /\ baseRef = [c \in Clients |-> 0]
  /\ targetSeconds = [c \in Clients |-> None]
  /\ localTarget = [c \in Clients |-> [t \in Tasks |-> Some(1)]]
  /\ persistTargetToTask = [c \in Clients |-> FALSE]
  /\ ticker = [c \in Clients |-> None]
  /\ displaySeconds = [c \in Clients |-> 0]
  /\ reloadPending = [c \in Clients |-> None]
  /\ ret = NoRet
  /\ call = [c \in Clients |-> NoCall]

InitStore ==
  /\ now = 0
  /\ nextId = 1
  /\ tasks = [t \in Tasks |-> [status |-> "pending",
                               estimated_duration_seconds |-> InitEstimate(t)]]

Init ==
  /\ DiaryClosed
  /\ InitStore
  /\ faultsLeft = MaxFaults
  /\ entries = {}
  /\ InitClients

\* the handlers of one open overlay and the service steps they await
OverlayStep(c) ==
  \/ Refresh(c)
  \/ ReloadReturns(c)
  \/ AwaitedReloadReturns(c)
  \/ HandleStart(c)
  \/ StartAggregateReturns(c)
  \/ StartMarksCompleted(c)
  \/ CreateFetchReturns(c)
  \/ CreateInsertReturns(c)
  \/ HandleStop(c)
  \/ StopFetchReturns(c)
  \/ StopUpdateReturns(c)
  \/ HandleFinish(c)
  \/ FinishStatusReturns(c)

\* opening and closing the overlay
SessionStep(c) ==
  \/ \E t \in Tasks : Open(c, t)
  \/ Close(c)

\* setting and clearing the target, saving it to the task
TargetStep(c) ==
  \/ \E s \in TargetInputs : SetTargetFromInputs(c, s)
  \/ ClearTarget(c)
  \/ TogglePersist(c)
  \/ StartPersistReturns(c)

\* the timer service called directly
ServiceStep(c) ==
  \/ \E t \in Tasks : GetAggregateCall(c, t)
  \/ GetAggregateReturns(c)
  \/ \E t \in Tasks : CreateEntryCall(c, t)
  \/ CreateFetchReturns(c)
  \/ CreateInsertReturns(c)
  \/ \E id \in 1..MaxEntries, ov \in Overrides : StopEntryCall(c, id, Some(ov))
  \/ StopFetchReturns(c)
  \/ StopUpdateReturns(c)

\* Two sessions with the timer overlay of the same task open, a target stored
\* locally before; the mount effect's reloadAggregate is in flight.
InitOpen ==
  /\ DiaryClosed
  /\ InitStore
  /\ faultsLeft = 0
  /\ entries = {}
  /\ mounted = [c \in Clients |-> TRUE]
  /\ taskOf = [c \in Clients |-> 1]
  /\ taskEstimate = [c \in Clients |-> InitEstimate(1)]
  /\ localTarget = [c \in Clients |-> [t \in Tasks |-> Some(1)]]
  /\ targetSeconds = [c \in Clients |-> LoadLocalTarget(Some(1), InitEstimate(1))]
  /\ pc = [c \in Clients |-> "idle"]
  /\ loading = [c \in Clients |-> TRUE]
  /\ runningEntry = [c \in Clients |-> None]
  /\ isRunning = [c \in Clients |-> FALSE]
  /\ baseRef = [c \in Clients |-> 0]
  /\ persistTargetToTask = [c \in Clients |-> FALSE]
  /\ ticker = [c \in Clients |-> None]
  /\ displaySeconds = [c \in Clients |-> 0]
  /\ reloadPending = [c \in Clients |-> Some(None)]
  /\ ret = NoRet
  /\ call = [c \in Clients |-> NoCall]

Next ==
  \/ Tick
  \/ \E c \in Clients : OverlayStep(c)

Spec == InitOpen /\ [][Next]_vars

\* One session, every operation of it; an operation ends before the next begins.
NextSeq ==
  \/ Tick
  \/ OverlayStep(1)
  \/ SessionStep(1)

SpecSeq == Init /\ [][NextSeq]_vars

\* The timer service called directly, one call after the other.
NextApi ==
  \/ Tick
  \/ ServiceStep(Observer)

SpecApi == Init /\ [][NextApi]_vars

\* Two callers of the timer service on a task that has a closed entry, with a
\* store that answers every call: the callers race to start the task.
InitRace ==
  /\ DiaryClosed
  /\ InitStore
  /\ faultsLeft = 0
  /\ entries = { Row(0, 1, 0, Some(1), Some(StopDuration(1, 0))) }
  /\ InitClients

NextRace ==
  \/ Tick
  \/ \E c \in Clients :
       \/ CreateEntryCall(c, 1)
       \/ CreateFetchReturns(c)
       \/ CreateInsertReturns(c)
       \/ GetAggregateCall(c, 1)
       \/ GetAggregateReturns(c)

SpecRace == InitRace /\ [][NextRace]_vars

\* One session with the overlay of task 1 open, and a direct caller of
\* getAggregate, on a store whose calls may fail.
InitDegrade ==
  /\ DiaryClosed
  /\ InitStore
  /\ faultsLeft = MaxFaults
  /\ entries = {}
  /\ mounted = [c \in Clients |-> c # Observer]
  /\ taskOf = [c \in Clients |-> 1]
  /\ taskEstimate = [c \in Clients |-> IF c # Observer THEN InitEstimate(1) ELSE None]
  /\ localTarget = [c \in Clients |-> [t \in Tasks |-> Some(1)]]
  /\ targetSeconds = [c \in Clients |->
       IF c # Observer THEN LoadLocalTarget(Some(1), InitEstimate(1)) ELSE None]
  /\ pc = [c \in Clients |-> "idle"]
  /\ loading = [c \in Clients |-> c # Observer]
  /\ runningEntry = [c \in Clients |-> None]
  /\ isRunning = [c \in Clients |-> FALSE]
  /\ baseRef = [c \in Clients |-> 0]
  /\ persistTargetToTask = [c \in Clients |-> FALSE]
  /\ ticker = [c \in Clients |-> None]
  /\ displaySeconds = [c \in Clients |-> 0]
  /\ reloadPending = [c \in Clients |-> IF c # Observer THEN Some(None) ELSE None]
  /\ ret = NoRet
  /\ call = [c \in Clients |-> NoCall]

NextDegrade ==
  \/ Tick
  \/ \E c \in Clients \ {Observer} : OverlayStep(c)
  \/ GetAggregateCall(Observer, 1)
  \/ GetAggregateReturns(Observer)

SpecDegrade == InitDegrade /\ [][NextDegrade]_vars

\* One session with the overlay of task 1 just opened: the task's estimate is
\* e, the localStorage slot holds slot, f store calls may fail, and the mount
\* effect has run (loadLocalTarget done, reloadAggregate in flight).
InitMounted(e, slot, f) ==
  /\ DiaryClosed
  /\ now = 0
  /\ nextId = 1
  /\ faultsLeft = f
  /\ entries = {}
  /\ tasks = [t \in Tasks |-> [status |-> "pending",
                               estimated_duration_seconds |->
                                 IF t = 1 THEN e ELSE InitEstimate(t)]]
  /\ taskEstimate = [c \in Clients |-> IF c = 1 THEN e ELSE None]
  /\ localTarget = [c \in Clients |-> [t \in Tasks |-> slot]]
  /\ targetSeconds = [c \in Clients |-> IF c = 1 THEN LoadLocalTarget(slot, e) ELSE None]
  /\ mounted = [c \in Clients |-> c = 1]
  /\ taskOf = [c \in Clients |-> 1]
  /\ pc = [c \in Clients |-> "idle"]
  /\ loading = [c \in Clients |-> c = 1]
  /\ runningEntry = [c \in Clients |-> None]
  /\ isRunning = [c \in Clients |-> FALSE]
  /\ baseRef = [c \in Clients |-> 0]
  /\ persistTargetToTask = [c \in Clients |-> FALSE]
  /\ ticker = [c \in Clients |-> None]
  /\ displaySeconds = [c \in Clients |-> 0]
  /\ reloadPending = [c \in Clients |-> IF c = 1 THEN Some(None) ELSE None]
  /\ ret = NoRet
  /\ call = [c \in Clients |-> NoCall]

\* Every control of the overlay, the target controls and the ticker included.
\* The task's estimate is whatever the tasks table holds (nothing, or a number
\* of either sign); the localStorage slot is empty or holds a target.
InitTarget == \E e \in Estimates, slot \in Slots : InitMounted(e, slot, 0)

NextTarget ==
  \/ Tick
  \/ OverlayStep(1)
  \/ TargetStep(1)
  \/ TickerFires(1)

SpecTarget == InitTarget /\ [][NextTarget]_vars

\* Starting, stopping and resuming a task whose target (two seconds) is not
\* reached by one entry, on a store whose calls may fail.
InitResume == InitMounted(None, Some(2), MaxFaults)

NextResume ==
  \/ Tick
  \/ OverlayStep(1)

SpecResume == InitResume /\ [][NextResume]_vars

\* One session that opens and closes the overlay of either task, sets and clears
\* targets and starts the timer, on a reliable store and within one tick of the
\* clock.  The first task has an estimate (of either sign) or none and the
\* localStorage slots hold a target or none; the two differ when both are there.
LoadEstimates == {None, Some(-1), Some(2)}
LoadSlots == {None, Some(1)}

InitLoad == \E e \in LoadEstimates, slot \in LoadSlots : InitMounted(e, slot, 0)

NextLoad ==
  \/ SessionStep(1)
  \/ TargetStep(1)
  \/ ReloadReturns(1)
  \/ HandleStart(1)
  \/ StartAggregateReturns(1)
  \/ StartMarksCompleted(1)
  \/ AwaitedReloadReturns(1)
  \/ CreateFetchReturns(1)
  \/ CreateInsertReturns(1)

SpecLoad == InitLoad /\ [][NextLoad]_vars

\* One session that starts, stops and resumes the timer of a task against a
\* stored target of two or three seconds, on a reliable store, the ticker
\* running.
PauseTargets == {Some(2), Some(3)}

InitPause == \E slot \in PauseTargets : InitMounted(None, slot, 0)

NextPause ==
  \/ Tick
  \/ OverlayStep(1)
  \/ TickerFires(1)

SpecPause == InitPause /\ [][NextPause]_vars

\* The timer overlay of task 1 open in one session while another session
\* deletes the task from its card, on a store whose calls may fail.
InitDelete == InitMounted(None, Some(2), MaxFaults)

DeleteStep(c) ==
  \/ HandleDelete(c, 1)
  \/ DeleteEntriesReturns(c)
  \/ DeleteTaskReturns(c)

NextDelete ==
  \/ Tick
  \/ OverlayStep(1)
  \/ DeleteStep(2)

SpecDelete == InitDelete /\ [][NextDelete]_vars

\* The diary page just mounted on today's date: the date effect's loadDiaryFor
\* is in flight and the autosave effect has scheduled its first timeout.  Each
\* date has a diary row or none, and a draft left by an earlier visit or none.
InitDiary ==
  /\ InitStore
  /\ faultsLeft = MaxFaults
  /\ entries = {}
  /\ InitClients
  /\ date = Today
  /\ content = NoText
  /\ diaryRow = None
  /\ diaryLoading = TRUE
  /\ autosaveTimer = ScheduleAutosave(Today, NoText)
  /\ drafts \in { [d \in Dates |-> IF d \in S THEN Some(TextOf(d)) ELSE None] :
                    S \in SUBSET Dates }
  /\ diaries \in { [d \in Dates |-> IF d \in S THEN Some(TextOf(d)) ELSE None] :
                     S \in SUBSET Dates }
  /\ diaryLoads = {Today}
  /\ diaryCall = NoDiaryCall

NextDiary ==
  \/ \E d \in Dates : SetDate(d)
  \/ \E d \in Dates : LoadDiaryReturns(d)
  \/ \E txt \in {NoText} \cup Dates : TypeContent(txt)
  \/ AutosaveFires
  \/ HandleSave
  \/ SaveFindReturns
  \/ SaveWriteReturns
  \/ HandleDiaryDelete
  \/ DiaryDeleteReturns
  \/ DiscardDraft

SpecDiary == InitDiary /\ [][NextDiary]_vars

\* The three mutations of the timer service called directly, one call after
\* the other, on task 1.
NextEdit ==
  \/ Tick
  \/ CreateEntryCall(Observer, 1)
  \/ CreateFetchReturns(Observer)
  \/ CreateInsertReturns(Observer)
  \/ \E id \in 1..MaxEntries : StopEntryCall(Observer, id, None)
  \/ StopFetchReturns(Observer)
  \/ StopUpdateReturns(Observer)
  \/ \E id \in 1..MaxEntries, u \in Updates : UpdateEntryCall(Observer, id, u)
  \/ UpdateEntryReturns(Observer)

SpecEdit == Init /\ [][NextEdit]_vars

\* Entries created, stopped and listed through the timer service, one call
\* after the other, on a store whose calls may fail.
NextList ==
  \/ Tick
  \/ \E t \in Tasks : CreateEntryCall(Observer, t)
  \/ CreateFetchReturns(Observer)
  \/ CreateInsertReturns(Observer)
  \/ \E id \in 1..MaxEntries : StopEntryCall(Observer, id, None)
  \/ StopFetchReturns(Observer)
  \/ StopUpdateReturns(Observer)
  \/ \E t \in Tasks : ListEntriesCall(Observer, t)
  \/ ListEntriesReturns(Observer)

SpecList == Init /\ [][NextList]_vars

\* The display of an open overlay whose reloadAggregate has returned: the task
\* has b seconds of closed entries, and a running entry, a stopped latest entry
\* or neither; the target is set or not.  Only the clock and the ticker move.
\* (An entry's start_at is the time of the client that created it: it may lie
\* ahead of this client's clock.)
InitDisplay ==
  \E b \in DisplayBases, tgt \in DisplayTargets, s \in DisplayStarts,
     kind \in {"none", "running", "stopped"} :
    LET closed == IF b > 0 THEN { Row(1, 1, s, Some(s), Some(b)) } ELSE {}
        latest == IF kind = "running" THEN Some(Row(2, 1, s, None, None))
                  ELSE IF kind = "stopped" THEN Some(Row(2, 1, s, Some(s), Some(0)))
                  ELSE None
        run == IF kind = "running" THEN latest ELSE None
    IN
    /\ DiaryClosed
    /\ now = 0
    /\ nextId = 3
    /\ faultsLeft = 0
    /\ entries = closed \cup (IF latest # None THEN {Val(latest)} ELSE {})
    /\ tasks = [t \in Tasks |-> [status |-> "pending",
                                 estimated_duration_seconds |-> InitEstimate(t)]]
    /\ mounted = [c \in Clients |-> c = 1]
    /\ taskOf = [c \in Clients |-> 1]
    /\ taskEstimate = [c \in Clients |-> None]
    /\ pc = [c \in Clients |-> "idle"]
    /\ loading = [c \in Clients |-> FALSE]
    /\ runningEntry = [c \in Clients |-> IF c = 1 THEN run ELSE None]
    /\ isRunning = [c \in Clients |-> c = 1 /\ run # None]
    /\ baseRef = [c \in Clients |-> IF c = 1 THEN b ELSE 0]
    /\ targetSeconds = [c \in Clients |-> IF c = 1 THEN tgt ELSE None]
    /\ localTarget = [c \in Clients |-> [t \in Tasks |-> tgt]]
    /\ persistTargetToTask = [c \in Clients |-> FALSE]
    /\ ticker = [c \in Clients |-> IF c = 1 THEN Ticker(latest, b, tgt) ELSE None]
    /\ displaySeconds = [c \in Clients |->
         IF c = 1 THEN TickerValue(latest, b, tgt, 0) ELSE 0]
    /\ reloadPending = [c \in Clients |-> None]
    /\ ret = NoRet
    /\ call = [c \in Clients |-> NoCall]

NextDisplay ==
  \/ Tick
  \/ TickerFires(1)

SpecDisplay == InitDisplay /\ [][NextDisplay]_vars

\* getAggregate on any list of rows: the table starts with up to AggMaxRows
\* arbitrary rows, closed rows without a duration and open rows with one included.
AggRowShapes ==
  [task_id : Tasks, start_at : 0..AggMaxStart,
   end_at : {None, Some(AggMaxStart + 1)},
   duration_seconds : {None} \cup {Some(d) : d \in 1..AggMaxDuration}]

InitAgg ==
  /\ DiaryClosed
  /\ InitStore
  /\ faultsLeft = MaxFaults
  /\ InitClients
  /\ \E n \in 0..AggMaxRows :
     \E shape \in [1..n -> AggRowShapes] :
       /\ entries = { Row(i, shape[i].task_id, shape[i].start_at, shape[i].end_at,
                          shape[i].duration_seconds) : i \in 1..n }

NextAgg ==
  \/ \E t \in Tasks : GetAggregateCall(Observer, t)
  \/ GetAggregateReturns(Observer)

SpecAgg == InitAgg /\ [][NextAgg]_vars

\* -------------------------------------------------------------- properties
\* the sum of the durations of the rows in the finite set S
RECURSIVE SumOfDurations(_)
SumOfDurations(S) ==
  IF S = {} THEN 0
  ELSE LET x == CHOOSE y \in S : TRUE IN Val(x.duration_seconds) + SumOfDurations(S \ {x})

\* the rows of task t that are closed and carry a duration
CountedRows(t) ==
  { r \in entries : r.task_id = t /\ r.end_at # None /\ r.duration_seconds # None }

\* the aggregate the observer got for task taskOf[Observer] from a table that
\* has not changed since
GotAggregate ==
  /\ pc[Observer] = "idle"
  /\ ret.fn = "getAggregate"
  /\ ~ret.error

\* C1: baseSeconds is the sum of durationSeconds over exactly the entries of the
\* task that have endAt present and a numeric durationSeconds; open entries and
\* closed entries without a duration contribute nothing.
C1_BaseSecondsIsConservativeSum ==
  GotAggregate => ret.baseSeconds = SumOfDurations(CountedRows(taskOf[Observer]))

C1_Witness ==
  /\ GotAggregate
  /\ ret.baseSeconds > 0
  /\ \E r \in RowsOfTask(entries, taskOf[Observer]) :
       r.end_at = None /\ r.duration_seconds # None
  /\ \E r \in RowsOfTask(entries, taskOf[Observer]) :
       r.end_at # None /\ r.duration_seconds = None

\* C2: runningEntry is null when the task has no open entry, and otherwise an
\* open entry of the task whose startAt is the maximum over its open entries.
C2_RunningEntryIsLatestOpen ==
  GotAggregate =>
    LET open == OpenRowsOfTask(entries, taskOf[Observer]) IN
      IF open = {} THEN ret.runningEntry = None
      ELSE /\ ret.runningEntry # None
           /\ Val(ret.runningEntry) \in open
           /\ \A r \in open : r.start_at <= Val(ret.runningEntry).start_at

C2_Witness ==
  /\ GotAggregate
  /\ ret.runningEntry # None
  /\ \E r \in OpenRowsOfTask(entries, taskOf[Observer]) :
       r.start_at < Val(ret.runningEntry).start_at /\ r.id > Val(ret.runningEntry).id

\* C3: the warnings hold multiple_running_entries:<n> exactly when the task has
\* n > 1 open entries, and are empty when at most one entry is open.
C3_WarningIffSeveralOpen ==
  GotAggregate =>
    LET n == Cardinality(OpenRowsOfTask(entries, taskOf[Observer])) IN
      /\ n > 1 => ret.warnings = << Warning("multiple_running_entries", n) >>
      /\ n <= 1 => ret.warnings = << >>

C3_Witness ==
  /\ GotAggregate
  /\ Cardinality(OpenRowsOfTask(entries, taskOf[Observer])) = 2
  /\ ret.warnings = << Warning("multiple_running_entries", 2) >>

\* client c takes the step that leaves position p
Leaves(c, p) == pc[c] = p /\ pc'[c] # p

\* the store call answered in this step returned an error
Faulted == faultsLeft' # faultsLeft

\* the base of task t as the table has it
StoredBase(t) == SumOfDurations(CountedRows(t))

\* C4: a start whose target is at most the task's baseSeconds inserts no time
\* entry and signals completion by setting the task's status to completed (the
\* status is written unless that store call itself returns an error); however
\* often such a start is repeated, every one of them inserts nothing.
C4_FulfilledStartOnlyCompletes ==
  [][\A c \in Clients :
       /\ ( /\ Leaves(c, "hs_agg")
            /\ ~Faulted
            /\ call[c].effectiveTarget <= StoredBase(taskOf[c]) )
          => pc'[c] = "hs_complete" /\ entries' = entries
       /\ Leaves(c, "hs_complete")
          => /\ entries' = entries
             /\ pc'[c] = "ra_fetch"
             /\ ~Faulted => tasks'[taskOf[c]].status = "completed"
       /\ ( Leaves(c, "ra_fetch") /\ call[c].handler = "handleStart" )
          => entries' = entries /\ pc'[c] = "idle"
  ]_vars

\* a fulfilled start is marking a task completed that an earlier one completed
C4_Witness ==
  \E c \in Clients :
    /\ pc[c] = "hs_complete"
    /\ tasks[taskOf[c]].status = "completed"
    /\ call[c].base >= call[c].effectiveTarget
    /\ OpenRowsOfTask(entries, taskOf[c]) = {}

\* C5: createEntry called while the task has an open entry returns an open entry
\* of the task (the one there is, if there is one), with created = false and no
\* error, and leaves the table as it was.
C5_CreateReturnsRunningEntry ==
  [][\A c \in Clients :
       ( /\ Leaves(c, "ce_fetch")
         /\ ~Faulted
         /\ OpenRowsOfTask(entries, taskOf[c]) # {} )
       => /\ entries' = entries
          /\ nextId' = nextId
          /\ pc'[c] # "ce_insert"
          /\ ( c = Observer /\ call[c].handler = "createEntry" )
             => /\ ret'.fn = "createEntry"
                /\ ret'.created = FALSE
                /\ ret'.error = "none"
                /\ ret'.data # None
                /\ Val(ret'.data) \in OpenRowsOfTask(entries, taskOf[c])
          /\ ( call[c].handler = "handleStart" /\ mounted[c] )
             => /\ runningEntry'[c] # None
                /\ Val(runningEntry'[c]) \in OpenRowsOfTask(entries, taskOf[c])
  ]_vars

\* createEntry has returned the entry that was running
C5_Witness ==
  /\ pc[Observer] = "idle"
  /\ ret.fn = "createEntry"
  /\ ret.created = FALSE
  /\ ret.error = "none"
  /\ ret.data # None
  /\ OpenRowsOfTask(entries, taskOf[Observer]) = {Val(ret.data)}
  /\ nextId = 2

\* C6: with one session whose operations each end before the next begins, no
\* task ever has more than one entry with endAt absent.
C6_OneOpenEntryPerTask ==
  \A t \in Tasks : Cardinality(OpenRowsOfTask(entries, t)) <= 1

\* a task is running again after an earlier entry of it was stopped
C6_Witness ==
  \E t \in Tasks :
    /\ Cardinality(OpenRowsOfTask(entries, t)) = 1
    /\ CountedRows(t) # {}
    /\ runningEntry[1] # None
    /\ Val(runningEntry[1]) \in OpenRowsOfTask(entries, t)

\* the open row of task t that getAggregate must report: one of maximal start_at
LatestOpen(t, r) ==
  /\ r \in OpenRowsOfTask(entries, t)
  /\ \A o \in OpenRowsOfTask(entries, t) : o.start_at <= r.start_at

\* C7: two callers that start the same task concurrently may both insert an open
\* entry.  Then no createEntry has failed, every insert left the rows that were
\* there (the closed ones among them) and the task's base untouched, and a
\* getAggregate that finds the two open entries returns the unchanged base, the
\* open entry of maximal startAt and the warning multiple_running_entries:2.
C7_RaceGivesWarningNotCorruption ==
  /\ [](ret.fn = "createEntry" => ret.error = "none" /\ ret.data # None)
  /\ [][\A c \in Clients :
          /\ Leaves(c, "ce_insert")
             => /\ entries \subseteq entries'
                /\ Cardinality(entries') = Cardinality(entries) + 1
                /\ \A r \in entries' \ entries : r.end_at = None /\ r.duration_seconds = None
                /\ StoredBase(taskOf[c])' = StoredBase(taskOf[c])
          /\ ( Leaves(c, "ga_fetch") /\ c = Observer
               /\ Cardinality(OpenRowsOfTask(entries, taskOf[c])) = 2 )
             => /\ entries' = entries
                /\ ~ret'.error
                /\ ret'.baseSeconds = StoredBase(taskOf[c])
                /\ ret'.runningEntry # None
                /\ LatestOpen(taskOf[c], Val(ret'.runningEntry))
                /\ ret'.warnings = << Warning("multiple_running_entries", 2) >>
     ]_vars

\* both callers inserted, the later insert carries the earlier startAt, and
\* getAggregate has reported the race
C7_Witness ==
  /\ pc[Observer] = "idle"
  /\ ret.fn = "getAggregate"
  /\ ret.warnings = << Warning("multiple_running_entries", 2) >>
  /\ ret.baseSeconds = 1
  /\ Cardinality(OpenRowsOfTask(entries, 1)) = 2
  /\ \E r \in OpenRowsOfTask(entries, 1) :
       r.id > Val(ret.runningEntry).id /\ r.start_at < Val(ret.runningEntry).start_at

\* the value a direct stopEntry returned for a row it wrote
StopSucceeded(r) == r.fn = "stopEntry" /\ r.error = "none" /\ r.data # None

\* C8: of two stopEntry calls in sequence on the same entryId with the same
\* endAtOverride, the second returns the durationSeconds (and endAt) the first
\* returned, and leaves the stored entry as the first call left it.
C8_StopTwiceSameOverride ==
  [][( /\ Leaves(Observer, "se_update")
       /\ StopSucceeded(ret)
       /\ StopSucceeded(ret')
       /\ ret'.entryId = ret.entryId
       /\ ret'.override = ret.override
       /\ ret.override # None )
     => /\ Val(ret'.data).duration_seconds = Val(ret.data).duration_seconds
        /\ Val(ret'.data).end_at = Val(ret.data).end_at
        /\ RowsWithId(entries', ret.entryId) = {Val(ret.data)}
    ]_vars

\* the second of two such calls is about to write, its duration above zero
C8_Witness ==
  /\ pc[Observer] = "se_update"
  /\ StopSucceeded(ret)
  /\ call[Observer].entryId = ret.entryId
  /\ call[Observer].override = ret.override
  /\ ret.override # None
  /\ Val(ret.data).duration_seconds = Some(1)
  /\ Val(ret.data) \in entries

\* C9: once an entry has its endAt and durationSeconds, no step gives the entry
\* another endAt or another durationSeconds.
C9_EndAndDurationSetOnce ==
  [][\A r \in entries :
       r.end_at # None
       => \A q \in RowsWithId(entries', r.id) :
            q.end_at = r.end_at /\ q.duration_seconds = r.duration_seconds]_vars

Abs(x) == IF x < 0 THEN -x ELSE x

\* n is (one of) the whole number(s) of seconds nearest to d half-seconds
NearestSecond(n, d) == 2 * Abs(HalfPerSec * n - d) <= HalfPerSec

\* C10: the one write of stopEntry sets endAt to the call's end instant and
\* durationSeconds to the nearest whole number of seconds between the stored
\* startAt and that instant, or to 0 when that number is negative; the two
\* fields are written together or not at all, and nothing else of the store
\* changes.  stopEntry's read writes nothing.
C10_StopWritesClampedRoundedDuration ==
  [][\A c \in Clients :
       /\ Leaves(c, "se_fetch") => entries' = entries
       /\ Leaves(c, "se_update")
          => \/ entries' = entries
             \/ \E row \in RowsWithId(entries, call[c].entryId) :
                \E n \in -MaxTime .. MaxTime :
                  /\ NearestSecond(n, call[c].end_at - row.start_at)
                  /\ entries' = (entries \ {row}) \cup
                       { [row EXCEPT !.end_at = Some(call[c].end_at),
                                     !.duration_seconds = Some(IF n < 0 THEN 0 ELSE n)] }
    ]_vars

\* a direct stopEntry has written an end before the entry's start: duration 0
C10_Witness ==
  /\ pc[Observer] = "idle"
  /\ StopSucceeded(ret)
  /\ Val(ret.data) \in entries
  /\ Val(Val(ret.data).end_at) + HalfPerSec <= Val(ret.data).start_at
  /\ Val(ret.data).duration_seconds = Some(0)

\* C11: a stopEntry whose read finds no row with the given id returns the
\* error "Entry not found" and no data, issues no update, and leaves every
\* stored entry as it was.
C11_StopOfMissingEntry ==
  [][\A c \in Clients :
       ( /\ Leaves(c, "se_fetch")
         /\ ~Faulted
         /\ \A r \in entries : r.id # call[c].entryId )
       => /\ entries' = entries
          /\ pc'[c] # "se_update"
          /\ (c = Observer /\ call[c].handler = "stopEntry")
             => /\ ret'.fn = "stopEntry"
                /\ ret'.entryId = call[c].entryId
                /\ ret'.error = "not_found"
                /\ ret'.data = None
    ]_vars

\* stopEntry has answered not-found for an id the table does not hold, while
\* the table holds an open entry under another id
C11_Witness ==
  /\ pc[Observer] = "idle"
  /\ ret.fn = "stopEntry"
  /\ ret.error = "not_found"
  /\ ret.data = None
  /\ \A r \in entries : r.id # ret.entryId
  /\ \E r \in entries : r.end_at = None

\* the aggregate of a failed fetch
ZeroAggregate ==
  [fn |-> "getAggregate", baseSeconds |-> 0, runningEntry |-> None,
   entries |-> << >>, warnings |-> << Warning("entries_fetch_error", 0) >>,
   error |-> TRUE]

\* an un-awaited reloadAggregate of client c returns in this step
ReloadLands(c) == reloadPending[c] # None /\ reloadPending'[c] = None

\* C12: a getAggregate whose fetch fails returns (it does not throw) base 0, no
\* running entry, no entries and the warning entries_fetch_error.  An overlay
\* whose reloadAggregate gets that value stays open, takes base 0 and no running
\* entry and resets loading; a handleStart that gets it goes on with base 0.
C12_FetchErrorGivesZeroAggregate ==
  [][/\ ( Leaves(Observer, "ga_fetch") /\ Faulted )
        => ret' = ZeroAggregate /\ pc'[Observer] = "idle"
     /\ \A c \in Clients :
          /\ ( (ReloadLands(c) \/ Leaves(c, "ra_fetch")) /\ Faulted )
             => /\ pc'[c] = "idle"
                /\ ~loading'[c]
                /\ baseRef'[c] = 0
                /\ runningEntry'[c] = None
                /\ ~isRunning'[c]
                /\ call[c].handler # "handleFinish" => mounted'[c] = mounted[c]
          /\ ( Leaves(c, "hs_agg") /\ Faulted )
             => pc'[c] = "ce_fetch" /\ call'[c].base = 0
    ]_vars

\* the direct caller holds the zeroed aggregate although the task has recorded
\* time, and the overlay of the other session is open and idle
C12_Witness ==
  /\ ret = ZeroAggregate
  /\ pc[Observer] = "idle"
  /\ StoredBase(1) > 0
  /\ \E c \in Clients : mounted[c] /\ pc[c] = "idle" /\ ~loading[c]

\* client c is inside a handleStart, past the check of the target
InStart(c) ==
  /\ call[c].handler = "handleStart"
  /\ pc[c] \in {"hs_agg", "hs_complete", "ce_fetch", "ce_insert", "hs_persist"}

\* C13: a start whose effective target is absent, zero or negative is turned
\* away: no step of it inserts a time entry or updates a task row.  (A start
\* without an effective target never gets past the check, so it has no steps.)
C13_StartNeedsPositiveTarget ==
  [][\A c \in Clients :
       ( InStart(c) /\ call[c].effectiveTarget <= 0 )
       => entries' = entries /\ tasks' = tasks ]_vars

\* client c is inside the createEntry of a handleStart
InCreateOfStart(c) ==
  call[c].handler = "handleStart" /\ pc[c] \in {"ce_fetch", "ce_insert"}

\* C14: a handleStart issues createEntry only in the step in which its
\* getAggregate has returned, and keeps the baseSeconds of that read: the base
\* does not change while createEntry runs, and the ticker started on the
\* returned entry counts from that base.
C14_BaseIsReadBeforeCreate ==
  [][\A c \in Clients :
       /\ ( pc'[c] = "ce_fetch" /\ pc[c] # "ce_fetch" /\ call'[c].handler = "handleStart" )
          => /\ pc[c] = "hs_agg"
             /\ call'[c].base = (IF Faulted THEN 0 ELSE StoredBase(taskOf[c]))
       /\ ( InCreateOfStart(c) /\ pc'[c] \in {"ce_fetch", "ce_insert"} )
          => call'[c].base = call[c].base
       /\ ( InCreateOfStart(c) /\ pc'[c] \notin {"ce_fetch", "ce_insert"} /\ ~Faulted )
          => /\ ticker'[c] # None
             /\ Val(ticker'[c]).base = call[c].base
             /\ Val(ticker'[c]).entry # None
             /\ Val(Val(ticker'[c]).entry) \in OpenRowsOfTask(entries', taskOf[c])
    ]_vars

\* a start has resumed the task: its ticker runs the new entry on the base of
\* the entry stopped before
C14_Witness ==
  \E c \in Clients :
    /\ pc[c] = "idle"
    /\ isRunning[c]
    /\ ticker[c] # None
    /\ Val(ticker[c]).base = 1
    /\ Val(ticker[c]).target = Some(2)
    /\ Val(ticker[c]).entry = runningEntry[c]
    /\ runningEntry[c] # None
    /\ Val(runningEntry[c]).id = 2
    /\ Val(runningEntry[c]).start_at = now

\* C15: a createEntry whose re-check finds n > 1 open entries of the task
\* returns one of maximal startAt with the warning multiple_running_entries:n,
\* reports no error and inserts nothing.
C15_CreateWithSeveralRunning ==
  [][\A c \in Clients :
       ( /\ Leaves(c, "ce_fetch")
         /\ ~Faulted
         /\ Cardinality(OpenRowsOfTask(entries, taskOf[c])) > 1 )
       => /\ entries' = entries
          /\ nextId' = nextId
          /\ pc'[c] # "ce_insert"
          /\ (c = Observer /\ call[c].handler = "createEntry")
             => /\ ret'.fn = "createEntry"
                /\ ret'.error = "none"
                /\ ~ret'.created
                /\ ret'.data # None
                /\ LatestOpen(taskOf[c], Val(ret'.data))
                /\ ret'.warnings =
                     << Warning("multiple_running_entries",
                                Cardinality(OpenRowsOfTask(entries, taskOf[c]))) >>
    ]_vars

\* createEntry has returned the later of two open entries that start at
\* different times, with the warning
C15_Witness ==
  /\ pc[Observer] = "idle"
  /\ ret.fn = "createEntry"
  /\ ~ret.created
  /\ ret.warnings = << Warning("multiple_running_entries", 2) >>
  /\ ret.data # None
  /\ Val(ret.data) \in entries
  /\ \E r \in OpenRowsOfTask(entries, 1) : r.start_at < Val(ret.data).start_at

\* C16: in every state reached through createEntry and stopEntry calls, calls
\* that fail at their read or at their write included, each entry has a
\* durationSeconds exactly when it has an endAt, and a durationSeconds that is
\* there is a whole number of seconds, not below zero.
C16_DurationIffEnded ==
  \A r \in entries :
    /\ (r.duration_seconds # None) <=> (r.end_at # None)
    /\ r.duration_seconds # None => Val(r.duration_seconds) \in Nat

\* one entry is stopped with an end before its start, and the stopEntry of
\* another entry has failed at its write
C16_Witness ==
  /\ ret.fn = "stopEntry"
  /\ ret.error = "write"
  /\ \E r \in entries : r.id = ret.entryId /\ r.end_at = None /\ r.duration_seconds = None
  /\ \E r \in entries : /\ r.end_at # None
                        /\ Val(r.end_at) < r.start_at
                        /\ r.duration_seconds = Some(0)

\* C17: no step changes the startAt of an entry that is in the table.
C17_StartAtNeverChanges ==
  [][\A r \in entries :
       \A q \in entries' : q.id = r.id => q.start_at = r.start_at]_vars

\* C18: getAggregate writes nothing: over the call, whether its fetch succeeds
\* or fails, the time entries (the set and every field), the ids to come and
\* the tasks stay as they are.
C18_GetAggregateWritesNothing ==
  [][\A c \in Clients :
       ( call[c].handler = "getAggregate" \/ call'[c].handler = "getAggregate" )
       => entries' = entries /\ nextId' = nextId /\ tasks' = tasks ]_vars

\* getAggregate has failed on a task that has two open entries, which are
\* still there
C18_Witness ==
  /\ pc[Observer] = "idle"
  /\ ret = ZeroAggregate
  /\ Cardinality(OpenRowsOfTask(entries, taskOf[Observer])) = 2
  /\ \E r \in entries : r.task_id = taskOf[Observer] /\ r.end_at # None

\* the closure the ticker of client c computes on
Closure(c) == Val(ticker[c])

\* the running segment of the closure's entry, stated on its own: a nearest
\* whole number of seconds between the entry's start and now while the entry is
\* open, 0 when there is no entry or the entry has an end
IsRunningSegment(c, n) ==
  IF Closure(c).entry # None /\ Val(Closure(c).entry).end_at = None
    THEN NearestSecond(n, now - Val(Closure(c).entry).start_at)
    ELSE n = 0

\* C19: for the entry, base and target an overlay's ticker holds, the display
\* computation gives runningSegment = the seconds from the entry's startAt to now
\* (0 without a running entry), elapsed = base + runningSegment and remaining =
\* target - elapsed, or 0 when that is negative; a ticker in target mode that
\* fires displays that remaining.  Base 1800, target 3600 and an entry running
\* for 300 s give 1500.
C19_DisplayComputation ==
  /\ [](\A c \in Clients :
          (mounted[c] /\ ticker[c] # None)
          => LET k == Closure(c)
                 tgt == IF k.target # None THEN Val(k.target) ELSE 0
                 r == ComputeRemaining(k.entry, k.base, k.target, now)
             IN /\ IsRunningSegment(c, r.runningSegment)
                /\ r.elapsed = k.base + r.runningSegment
                /\ r.remaining = (IF tgt - r.elapsed < 0 THEN 0 ELSE tgt - r.elapsed)
                /\ r.remaining >= 0)
  /\ [](ComputeRemaining(Some(Row(2, 1, ExampleStart, None, None)),
                         1800, Some(3600), MaxTime).remaining = 1500)
  /\ [][\A c \in Clients :
          ( mounted[c] /\ ticker[c] # None /\ Closure(c).target # None
            /\ displaySeconds'[c] # displaySeconds[c] )
          => \E n \in -MaxTime .. 300 + MaxTime :
               /\ IsRunningSegment(c, n)
               /\ displaySeconds'[c] =
                    Max(0, Val(Closure(c).target) - (Closure(c).base + n))
     ]_vars

\* the ticker of the spec's example has fired: 1500 s remain
C19_Witness ==
  /\ mounted[1]
  /\ ticker[1] = Ticker(Some(Row(2, 1, ExampleStart, None, None)), 1800, Some(3600))
  /\ now = MaxTime
  /\ displaySeconds[1] = 1500

\* the elapsed time of the overlay of client c: its base and the running
\* segment of its running entry
ElapsedNow(c) == ComputeRemaining(runningEntry[c], baseRef[c], None, now).elapsed

\* C20: an open overlay with a target shows max(0, target - elapsed); an open
\* overlay without a target shows the elapsed time whenever its display is
\* written (by the reload that Clear Target starts and by every tick after it).
C20_DisplayMatchesTargetMode ==
  /\ [](\A c \in Clients :
          (mounted[c] /\ targetSeconds[c] # None)
          => Displayed(c) = Max(0, Val(targetSeconds[c]) - ElapsedNow(c)))
  /\ [][\A c \in Clients :
          ( /\ mounted[c] /\ mounted'[c]
            /\ targetSeconds'[c] = None
            /\ ticker'[c] # None
            /\ displaySeconds'[c] # displaySeconds[c] )
          => Displayed(c)' = ElapsedNow(c)' ]_vars

\* C21: what an open overlay shows is computed from the base and the running
\* entry of its most recent read of the store.  The reads are those of
\* reloadAggregate, which writes baseRef, runningEntry and the ticker at once,
\* and the one of handleStart, whose base goes to the ticker: so the render
\* (baseRef, runningEntry) and the ticker agree on the base and on the entry,
\* and while a start runs createEntry the render's base is the base it read.
C21_DisplayUsesLatestRead ==
  \A c \in Clients :
    mounted[c]
    => /\ InCreateOfStart(c) => baseRef[c] = call[c].base
       /\ (ticker[c] # None /\ pc[c] = "idle" /\ reloadPending[c] = None)
          => /\ baseRef[c] = Val(ticker[c]).base
             /\ runningEntry[c] = Val(ticker[c]).entry

\* C22: once the overlay is closed or unmounted no periodic display update of
\* it remains scheduled, also when a reloadAggregate, a Start or a Stop that
\* was awaiting the store at that moment completes afterwards.  (An overlay has
\* one tickerRef, cleared by startTicker before it is set: at most one update
\* is scheduled per overlay by construction of the ticker variable.)
C22_NoTickerAfterClose ==
  \A c \in Clients : ~mounted[c] => ticker[c] = None

\* the step is the Close button of overlay c (the overlay goes away and no
\* handler of it moves)
ClosedByButton(c) == mounted[c] /\ ~mounted'[c] /\ pc' = pc

\* C23: closing the timer view stops the periodic display update and writes
\* nothing to the time entries: every entry, and so every entry that was open
\* (no end_at, no duration_seconds), is after Close what it was before.
C23_CloseWritesNoEntry ==
  [][\A c \in Clients :
       ClosedByButton(c) => /\ ticker'[c] = None
                            /\ entries' = entries
                            /\ \A r \in entries :
                                 r.end_at = None
                                 => \E q \in entries' : /\ q.id = r.id
                                                         /\ q.end_at = None
                                                         /\ q.duration_seconds = None]_vars

\* the overlay was closed by the button while it showed a running entry, no
\* handler in flight, and that entry is open in the store
C23_Witness ==
  /\ ~mounted[1]
  /\ pc[1] = "idle"
  /\ reloadPending[1] = None
  /\ ticker[1] = None
  /\ tasks[taskOf[1]].status = "pending"
  /\ \E r \in entries : r.task_id = taskOf[1] /\ r.end_at = None /\ r.start_at < now

\* the step mounts overlay c
Opened(c) == ~mounted[c] /\ mounted'[c]

\* the step is a press of Start on overlay c that passes the target validation
StartPressed(c) == pc[c] = "idle" /\ pc'[c] = "hs_agg"

\* C24: when the localStorage slot of the task holds a target, the target
\* loaded on open and the effective target of Start are that value, whatever
\* the task's estimate is; the estimate is taken only when the slot is empty.
C24_LocalTargetWins ==
  [][\A c \in Clients :
       /\ Opened(c)
          => LET slot == localTarget[c][taskOf'[c]]
                 estimate == tasks[taskOf'[c]].estimated_duration_seconds
             IN /\ slot # None => targetSeconds'[c] = slot
                /\ slot = None => targetSeconds'[c] = estimate
       /\ StartPressed(c)
          => LET slot == localTarget[c][taskOf[c]]
             IN /\ slot # None => call'[c].effectiveTarget = Val(slot)
                /\ slot = None => /\ taskEstimate[c] # None
                                  /\ call'[c].effectiveTarget = Val(taskEstimate[c])]_vars

\* the overlay, used on the second task before, was reopened on the first,
\* whose slot (1) and estimate (2) differ, and its Start runs with the slot's
\* value
C24_Witness ==
  /\ mounted[1] /\ taskOf[1] = 1
  /\ \E r \in entries : r.task_id = 2
  /\ localTarget[1][1] = Some(1)
  /\ taskEstimate[1] = Some(2)
  /\ targetSeconds[1] = Some(1)
  /\ pc[1] = "ce_fetch"
  /\ call[1].effectiveTarget = 1

\* the step is a Set Target of overlay c that takes a target (one that changes
\* the target state or the slots)
TargetSet(c) ==
  /\ mounted[c] /\ pc' = pc /\ reloadPending' = reloadPending
  /\ targetSeconds'[c] # None
  /\ targetSeconds'[c] # targetSeconds[c] \/ localTarget'[c] # localTarget[c]

\* the step is the end of a createEntry whose handleStart adopts the entry
StartAdopts(c) ==
  /\ InCreateOfStart(c)
  /\ pc'[c] \in {"idle", "hs_persist"}
  /\ ticker'[c] # None /\ Val(ticker'[c]).target = Some(call[c].effectiveTarget)
  /\ IsSome(Val(ticker'[c]).entry)

\* the step is a Clear Target of overlay c
TargetCleared(c) ==
  /\ mounted[c] /\ mounted'[c] /\ pc' = pc
  /\ reloadPending[c] = None /\ reloadPending'[c] # None
  /\ targetSeconds'[c] = None
  /\ targetSeconds[c] # None \/ localTarget[c][taskOf[c]] # None

\* C25: the target of a Set Target, and the one a successful Start used, is
\* stored in the slot of the overlay's task; Clear Target empties that slot;
\* the slot's content is what an overlay reopened on the task loads; and no
\* step changes the slot of a task other than the overlay's.
C25_TargetStoredPerTask ==
  [][\A c \in Clients :
       /\ TargetSet(c) => localTarget'[c][taskOf[c]] = targetSeconds'[c]
       /\ StartAdopts(c) => localTarget'[c][taskOf[c]] = Some(call[c].effectiveTarget)
       /\ TargetCleared(c) => localTarget'[c][taskOf[c]] = None
       /\ Opened(c) => /\ localTarget' = localTarget
                        /\ localTarget[c][taskOf'[c]] # None
                           => targetSeconds'[c] = localTarget[c][taskOf'[c]]
       /\ \A t \in Tasks :
            localTarget'[c][t] # localTarget[c][t]
            => /\ t = taskOf[c] /\ taskOf'[c] = taskOf[c]
               /\ TargetSet(c) \/ StartAdopts(c) \/ TargetCleared(c)]_vars

\* a target of 1 was set on the first task (with the checkbox, so that the
\* task row carries it), and the overlay, reopened on that task, has loaded it
\* from the slot; the second task's slot is still empty
C25_Witness ==
  /\ mounted[1] /\ taskOf[1] = 1
  /\ taskEstimate[1] = Some(1)
  /\ loading[1] /\ reloadPending[1] = Some(None)
  /\ localTarget[1][1] = Some(1)
  /\ localTarget[1][2] = None
  /\ targetSeconds[1] = Some(1)

\* the last call returned the rows of task t
Listed(r, t) == r.fn = "listEntries" /\ r.error = "none" /\ r.task = t

\* the listing r has row x
Lists(r, x) == \E i \in 1..Len(Val(r.data)) : Val(r.data)[i] = x

\* C26: a listEntries that follows an insert returns the inserted entry, with no
\* end_at; a stopEntry that succeeds returns the entry of the id it was given
\* with end_at and duration_seconds present, duration_seconds >= 0 and the
\* start_at the entry had; and a listEntries that follows it returns that entry
\* as the stop left it.
C26_InsertStopListRoundTrip ==
  [][/\ ( /\ Leaves(Observer, "le_fetch")
          /\ ret.fn = "createEntry" /\ ret.error = "none" /\ ret.created
          /\ Listed(ret', Val(ret.data).task_id) )
        => /\ Lists(ret', Val(ret.data))
           /\ Val(ret.data).end_at = None
     /\ ( /\ Leaves(Observer, "se_update")
          /\ StopSucceeded(ret') )
        => /\ Val(ret'.data).id = call[Observer].entryId
           /\ Val(ret'.data).end_at # None
           /\ Val(ret'.data).duration_seconds # None
           /\ Val(Val(ret'.data).duration_seconds) >= 0
           /\ \E r \in entries : /\ r.id = Val(ret'.data).id
                                  /\ r.start_at = Val(ret'.data).start_at
                                  /\ r.task_id = Val(ret'.data).task_id
     /\ ( /\ Leaves(Observer, "le_fetch")
          /\ StopSucceeded(ret)
          /\ Listed(ret', Val(ret.data).task_id) )
        => Lists(ret', Val(ret.data))
    ]_vars

\* a listing of the first task made after a stop: it has the stopped
\* entry, closed with a positive duration, and after it an entry still open
C26_Witness ==
  /\ pc[Observer] = "idle"
  /\ Listed(ret, 1)
  /\ Len(Val(ret.data)) = 2
  /\ Val(ret.data)[1].end_at # None
  /\ Val(ret.data)[1].duration_seconds = Some(1)
  /\ Val(ret.data)[2].end_at = None

\* the step ends a handleStop: its reloadAggregate has returned
StopCompletes(c) ==
  /\ pc[c] = "ra_fetch" /\ call[c].handler = "handleStop" /\ pc'[c] = "idle"

\* C27: when a Stop completes, the overlay's base is the base it had plus the
\* duration of the entry it stopped, which is the sum of the task's stopped
\* segments, no entry is running in the overlay and the remaining it shows is
\* the target minus that sum; the next Start reads the same base, so it
\* computes the same remaining and resumes (or completes) on it.
C27_StopResumeConservesTime ==
  [][\A c \in Clients :
       /\ StopCompletes(c)
          => /\ \E r \in entries :
                  /\ r.id = call[c].entryId
                  /\ r.end_at # None /\ r.duration_seconds # None
                  /\ baseRef'[c] = baseRef[c] + Val(r.duration_seconds)
             /\ baseRef'[c] = StoredBase(taskOf[c])
             /\ runningEntry'[c] = None /\ ~isRunning'[c]
             /\ targetSeconds'[c] # None
             /\ Displayed(c)' = Max(0, Val(targetSeconds'[c]) - StoredBase(taskOf[c]))
             /\ displaySeconds'[c] = Displayed(c)'
       /\ (Leaves(c, "hs_agg") /\ call[c].handler = "handleStart")
          => /\ call'[c].base = baseRef[c]
             /\ call'[c].base = StoredBase(taskOf[c])
             /\ call[c].effectiveTarget - StoredBase(taskOf[c]) = Displayed(c)
                \/ (Displayed(c) = 0 /\ pc'[c] = "hs_complete")]_vars

\* two segments of a second each were timed against a target of three
\* seconds: the second Stop has completed and the overlay shows the one second
\* that remains
C27_Witness ==
  /\ mounted[1] /\ pc[1] = "idle" /\ ~loading[1]
  /\ Cardinality(entries) = 2
  /\ \A r \in entries : r.end_at # None /\ r.duration_seconds = Some(1)
  /\ baseRef[1] = 2
  /\ runningEntry[1] = None
  /\ targetSeconds[1] = Some(3)
  /\ Displayed(1) = 1

\* C28: once TaskCard's delete has removed a task row, the store has no time
\* entry of that task: not one whose delete returned an error, and not one a
\* timer session inserted while the delete was in progress or inserts later.
C28_DeletedTaskHasNoEntries ==
  \A t \in Tasks : tasks[t] = DeletedTask => RowsOfTask(entries, t) = {}

\* the step ends a handleFinish that has marked the task completed: its
\* reloadAggregate has returned and onClose closes the overlay
FinishCompletes(c) ==
  /\ pc[c] = "ra_fetch" /\ call[c].handler = "handleFinish" /\ pc'[c] = "idle"

\* C29: when a Finish completes (the task marked completed, the overlay
\* closed) the task has no open time entry: the entry that was running has its
\* end_at and duration_seconds, also when stopEntry returned an error or the
\* task had more than one open entry.
C29_FinishLeavesNoOpenEntry ==
  [][\A c \in Clients :
       FinishCompletes(c) => OpenRowsOfTask(entries', taskOf[c]) = {}]_vars

\* C30: the autosave stores under the draft key of a date only text that was
\* loaded or typed for that date (or no text): a draft never holds another
\* date's text, and with no load in flight the page never shows another date's
\* text.
C30_DraftBelongsToItsDate ==
  /\ \A d \in Dates : drafts[d] # None => Val(drafts[d]) \in {NoText, TextOf(d)}
  /\ diaryLoads = {} => content \in {NoText, TextOf(date)}

====
